---- MODULE Spec2Model ----
(***************************************************************************)
(* Model of the log group cleaner: the Event Intake Processor              *)
(* (event-handler), the Deletion Processor (deletion-handler) and the      *)
(* Alert Notifier (slack-workflow-notifier), with the per-region client    *)
(* cache they share by import; the two batch processors also fed from      *)
(* their queues (the event queue, and the deletion queue with its          *)
(* dead-letter queue); and the legacy single-event handler                 *)
(* (cw-logs-event-handler).                                                *)
(*                                                                         *)
(* Strings that the code takes apart or puts together are modelled by      *)
(* their parts: an ISO-8601 timestamp is the record of its fields, a log   *)
(* group name and an ARN are sequences of chunks.  The schedule name       *)
(* (short name plus a random suffix) is left out of the command.           *)
(***************************************************************************)
EXTENDS Integers, Sequences, FiniteSets, TLC

\* ---------------------------------------------------------------- bounds
MaxBatch == 2          \* records per batch delivered to a batch processor
MaxMessages == 2       \* messages a queue holds over a run

\* ------------------------------------------------------- sample inputs
Regions == {"eu-west-1", "us-east-1"}

\* log group names as chunk sequences: AppGroup is a proper prefix of ExtraGroup
AppGroup == <<"/aws/lambda/App">>
ExtraGroup == <<"/aws/lambda/App", "-Extra">>

\* retentionInDays of a log group that has none (the field is undefined)
NoRetention == -1
Retentions == {NoRetention, 7}
OtherRetention == 30

\* values of DELETION_DELAY_DAYS a deployment may be configured with
DelayDays == {0, 1}

Iso(y, mo, d, h, mi, s, ms, off) ==
  [y |-> y, mo |-> mo, d |-> d, h |-> h, mi |-> mi, s |-> s, ms |-> ms, off |-> off]

\* ------------------------------------------------- ISO calendar (Temporal)
DaysFromCivil(y, m, d) ==
  LET yy == IF m <= 2 THEN y - 1 ELSE y
      era == yy \div 400
      yoe == yy - era * 400
      mp == (m + 9) % 12
      doy == (153 * mp + 2) \div 5 + d - 1
      doe == yoe * 365 + yoe \div 4 - yoe \div 100 + doy
  IN era * 146097 + doe - 719468

CivilFromDays(z) ==
  LET zz == z + 719468
      era == zz \div 146097
      doe == zz - era * 146097
      yoe == (doe - doe \div 1460 + doe \div 36524 - doe \div 146096) \div 365
      doy == doe - (365 * yoe + yoe \div 4 - yoe \div 100)
      mp == (5 * doy + 2) \div 153
      d == doy - (153 * mp + 2) \div 5 + 1
      m == IF mp < 10 THEN mp + 3 ELSE mp - 9
      y == yoe + era * 400 + (IF m <= 2 THEN 1 ELSE 0)
  IN [y |-> y, mo |-> m, d |-> d]

\* Temporal.Instant.from(isoString): the exact time, offset applied
InstantFrom(t) ==
  [epochSeconds |-> DaysFromCivil(t.y, t.mo, t.d) * 86400
                     + t.h * 3600 + t.mi * 60 + t.s - t.off * 60,
   ms |-> t.ms]

\* instant.toZonedDateTimeISO('UTC'): wall-clock fields in UTC
ToZonedDateTimeISOUTC(i) ==
  LET date == CivilFromDays(i.epochSeconds \div 86400)
      sod == i.epochSeconds % 86400
  IN [y |-> date.y, mo |-> date.mo, d |-> date.d,
      h |-> sod \div 3600, mi |-> (sod % 3600) \div 60, s |-> sod % 60, ms |-> i.ms]

\* zonedDateTime.add({ days }): calendar days added to the date, time of day kept
AddDays(z, days) ==
  LET date == CivilFromDays(DaysFromCivil(z.y, z.mo, z.d) + days)
  IN [z EXCEPT !.y = date.y, !.mo = date.mo, !.d = date.d]

\* zonedDateTime.toInstant() in UTC
ToInstant(z) ==
  [epochSeconds |-> DaysFromCivil(z.y, z.mo, z.d) * 86400
                     + z.h * 3600 + z.mi * 60 + z.s,
   ms |-> z.ms]

\* instant.toString(): UTC fields, the fractional second printed only when it
\* is not zero (fractionalSecondDigits 'auto'), and the zone suffix 'Z'
InstantToString(i) ==
  LET z == ToZonedDateTimeISOUTC(i)
  IN [y |-> z.y, mo |-> z.mo, d |-> z.d, h |-> z.h, mi |-> z.mi, s |-> z.s,
      frac |-> i.ms, zone |-> "Z"]

\* str.replace('Z', '')
ReplaceZ(str) == [str EXCEPT !.zone = ""]


\* ------------------------------------------------------------ the state
VARIABLES
  deletionDelayDays,   \* event-handler: DELETION_DELAY_DAYS read at module load
  cwClientMap,         \* cloudwatch.ts: per process, region -> client (0: no entry)
  clientSerial,        \* per process, number of CloudWatchLogsClient objects constructed
  ehPc,                \* event-handler invocation: "idle", "running", "returned"
  ehRecords,           \* event.Records of the running invocation (message identifiers)
  ehItems,             \* per record: progress of processRecord / recordHandler
  ehFailureMessages,   \* processor.failureMessages, in the order the failures were recorded
  ehResult,            \* the value the handler returned
  ehAttempts,          \* per record: requests the SDK client has made for the call in
                       \* flight (0: no call in flight)
  eqMessages,          \* event queue: per message identifier, the body of the message
  eqState,             \* event queue: per message, "visible", "inflight" or "deleted"
  eqCreated,           \* history: per message, the create-schedule calls that succeeded
  eqReported,          \* history: the messages some response reported as failed
  logGroups,           \* logging service: the <<region, name>> of the log groups that exist
  deleted,             \* history: the log groups a delete call has removed
  dhPc,                \* deletion-handler invocation: "idle", "running", "returned", "threw"
  dhRecords,           \* event.Records of the running invocation (message identifiers)
  dhItems,             \* per record: progress of processRecord / recordHandler
  dhFailureMessages,   \* processor.failureMessages, in the order the failures were recorded
  dhResult,            \* the value the handler returned
  dhDeleteCalls,       \* the records of the invocation a DeleteLogGroupCommand was sent for
  dhCommands,          \* the DeleteLogGroupCommands of the invocation: the record, the
                       \* log group named and the client the command was sent through
  dhAttempts,          \* per record: requests the SDK client has made for the call in
                       \* flight (0: no call in flight)
  dqMessages,          \* deletion queue: per message identifier, the body of the message
  dqState,             \* deletion queue: per message, "visible", "inflight", "deleted", "dlq"
  dqReceiveCount,      \* deletion queue: per message, the times it was received
  snPc,                \* notifier invocation: "idle", "getParameter", "post", "backoff",
                       \* "returned", "threw"
  snEvent,             \* the event of the running invocation
  snError,             \* the error the invocation threw ("" when none)
  snErrorDetail,       \* what the error message says after its fixed text
  snParameter,         \* what getParameter answered to the invocation
  snSecretCalls,       \* getParameter calls made by the invocation
  snPayload,           \* the SlackPayload built by the invocation
  snAttempt,           \* sendWithRetry: the loop variable attempt
  snPosts,             \* the POSTs made by the invocation: url and body
  snOutcomes,          \* history: how each settled POST ended
  snWaits,             \* the backoff waits of the invocation, in milliseconds
  snLog,               \* the records logged by sendWithRetry
  lgPc,                \* legacy handler invocation: "idle", "describe", "schedule",
                       \* "returned", "threw"
  lgEvent,             \* the event of the running invocation
  lgContext,           \* the Lambda object's #context
  lgOriginalContext,   \* contextCleaner: the clone of #context taken before the handler
  lgClientMap,         \* the Lambda object's #cwClientMap: region -> client (0: no entry)
  lgResponse,          \* what the describe call answered
  lgCmd,               \* the CreateScheduleCommand the invocation sent
  lgError              \* the error the invocation rejected with ("" when none)

ehVars == <<deletionDelayDays, ehPc, ehRecords, ehItems, ehFailureMessages, ehResult,
            ehAttempts>>
dhVars == <<logGroups, deleted, dhPc, dhRecords, dhItems, dhFailureMessages, dhResult,
            dhDeleteCalls, dhCommands, dhAttempts>>
snVars == <<snPc, snEvent, snError, snErrorDetail, snParameter, snSecretCalls, snPayload,
            snAttempt, snPosts, snOutcomes, snWaits, snLog>>
eqVars == <<eqMessages, eqState, eqCreated, eqReported>>
dqVars == <<dqMessages, dqState, dqReceiveCount>>
lgVars == <<lgPc, lgEvent, lgContext, lgOriginalContext, lgClientMap, lgResponse,
            lgCmd, lgError>>
vars == <<deletionDelayDays, cwClientMap, clientSerial,
          ehPc, ehRecords, ehItems, ehFailureMessages, ehResult, ehAttempts,
          eqMessages, eqState, eqCreated, eqReported,
          logGroups, deleted, dhPc, dhRecords, dhItems, dhFailureMessages, dhResult,
          dhDeleteCalls, dhCommands, dhAttempts, dqMessages, dqState, dqReceiveCount,
          snPc, snEvent, snError, snErrorDetail, snParameter, snSecretCalls, snPayload,
          snAttempt, snPosts, snOutcomes, snWaits, snLog,
          lgPc, lgEvent, lgContext, lgOriginalContext, lgClientMap, lgResponse,
          lgCmd, lgError>>

Processes == {"event-handler", "deletion-handler"}

\* ------------------------------------------------- cloudwatch.ts: the cache
\* mutant: every call constructs a client and stores it
AlwaysNewClientMap(p, region) ==
  [cwClientMap EXCEPT ![p][region] = clientSerial[p] + 1]

\* getRegionalCwClient(region) run by process p: the map after the call
GetRegionalCwClientMap(p, region) ==
  IF cwClientMap[p][region] = 0
    THEN [cwClientMap EXCEPT ![p][region] = clientSerial[p] + 1]
    ELSE cwClientMap

\* number of clients constructed after the call
GetRegionalCwClientSerial(p, region) ==
  IF cwClientMap[p][region] = 0
    THEN [clientSerial EXCEPT ![p] = clientSerial[p] + 1]
    ELSE clientSerial

\* the client the call returns
GetRegionalCwClient(p, region) == GetRegionalCwClientMap(p, region)[p][region]

\* ------------------------------------------------- the SDK clients' retries
\* new CloudWatchLogsClient({ region, retryMode: 'adaptive', maxAttempts: 5 }),
\* new SchedulerClient({ retryMode: 'adaptive', maxAttempts: 5 })
maxAttempts == 5

\* mutant: the client makes one more request than maxAttempts
SdkMayRetryOnceMore(attempts) == attempts <= maxAttempts

\* the client may repeat a request that failed with a retryable error as long
\* as it has made fewer than maxAttempts requests for the command
SdkMayRetry(attempts) == attempts < maxAttempts

\* ------------------------------------------- event-handler: configuration
deletionQueueArn == "arn:aws:sqs:eu-west-1:123456789023:deletion-queue"
schedulerRoleArn == "arn:aws:iam::123456789023:role/publish-to-queue-role"

\* process.env.AWS_REGION: the region the function runs in
functionRegion == "eu-west-1"

\* ------------------------------------------------ event-handler: records
InvalidBody == [valid |-> FALSE]

EventBody(t, region, name) ==
  [valid |-> TRUE, eventTime |-> t, awsRegion |-> region, logGroupName |-> name]

\* JSON bodies that lack detail.eventTime, detail.awsRegion or
\* detail.requestParameters.logGroupName
IncompleteBodies ==
  { [valid |-> TRUE, awsRegion |-> "eu-west-1", logGroupName |-> AppGroup],
    [valid |-> TRUE, eventTime |-> Iso(2024, 10, 10, 13, 26, 7, 0, 0),
     logGroupName |-> AppGroup],
    [valid |-> TRUE, eventTime |-> Iso(2024, 10, 10, 13, 26, 7, 0, 0),
     awsRegion |-> "eu-west-1"] }

\* bodies of the records delivered to the Event Intake Processor, with the
\* event times 2024-10-10T13:26:07Z, 2024-02-28T23:59:59.500Z and
\* 2023-12-31T01:30:00+02:00
EhBodies ==
  { InvalidBody,
    EventBody(Iso(2024, 10, 10, 13, 26, 7, 0, 0), "eu-west-1", AppGroup),
    EventBody(Iso(2024, 2, 28, 23, 59, 59, 500, 0), "us-east-1", AppGroup),
    EventBody(Iso(2023, 12, 31, 1, 30, 0, 0, 120), "eu-west-1", ExtraGroup) }
  \cup IncompleteBodies

\* mutant: the schema does not ask for detail.eventTime
SchemaWithoutEventTime(body) ==
  body.valid /\ {"awsRegion", "logGroupName"} \subseteq DOMAIN body

\* EventBridgeEventSchema: the parser accepts the body or throws; the body
\* is JSON holding detail.eventTime, detail.awsRegion and
\* detail.requestParameters.logGroupName
EventBridgeEventSchema(body) ==
  body.valid /\ {"eventTime", "awsRegion", "logGroupName"} \subseteq DOMAIN body

\* --------------------------------------- the logging service's describe call
LogGroupEntry(name, retention) == [logGroupName |-> name, retentionInDays |-> retention]

\* a longer name that has name as a prefix
LongerName(name) == Append(name, "-Extra")

RejectedResponse == [ok |-> FALSE, listed |-> FALSE, logGroups |-> <<>>]
UnlistedResponse == [ok |-> TRUE, listed |-> FALSE, logGroups |-> <<>>]
ListedResponse(groups) == [ok |-> TRUE, listed |-> TRUE, logGroups |-> groups]

\* what DescribeLogGroups(logGroupNamePrefix = name) may answer: a rejection,
\* a response without logGroups, or a list of distinct log groups whose names
\* start with name, the requested one first, last or missing
DescribeResponses(name) ==
  LET other == LogGroupEntry(LongerName(name), OtherRetention)
  IN {RejectedResponse, UnlistedResponse, ListedResponse(<<>>), ListedResponse(<<other>>)}
     \cup { ListedResponse(<<LogGroupEntry(name, r)>>) : r \in Retentions }
     \cup { ListedResponse(<<LogGroupEntry(name, NoRetention), other>>),
            ListedResponse(<<other, LogGroupEntry(name, 7)>>) }

NoLogGroup == [found |-> FALSE]
FoundLogGroup(entry) ==
  [found |-> TRUE, logGroupName |-> entry.logGroupName,
   retentionInDays |-> entry.retentionInDays]

\* mutant: the first entry listed is taken, response.logGroups?.[0]
FindFirstLogGroup(response, logGroupName) ==
  IF (~response.listed) \/ response.logGroups = <<>>
    THEN NoLogGroup
    ELSE FoundLogGroup(response.logGroups[1])

\* mutant: an entry whose name starts with the requested name is taken
FindLogGroupByPrefix(response, logGroupName) ==
  LET groups == response.logGroups
      n == Len(logGroupName)
      hits == { k \in 1..Len(groups) :
                  /\ Len(groups[k].logGroupName) >= n
                  /\ SubSeq(groups[k].logGroupName, 1, n) = logGroupName }
  IN IF (~response.listed) \/ hits = {}
       THEN NoLogGroup
       ELSE FoundLogGroup(groups[CHOOSE k \in hits : \A j \in hits : k <= j])

\* response.logGroups?.find((lg) => lg.logGroupName === logGroupName)
FindLogGroup(response, logGroupName) ==
  LET groups == response.logGroups
      hits == { k \in 1..Len(groups) : groups[k].logGroupName = logGroupName }
  IN IF (~response.listed) \/ hits = {}
       THEN NoLogGroup
       ELSE FoundLogGroup(groups[CHOOSE k \in hits : \A j \in hits : k <= j])

\* ----------------------------------- event-handler: createDeleteSchedule
\* mutant: the retention is passed on as it came, without the default
RetentionAsListed(retentionInDays) == retentionInDays

\* retentionInDays ?? 0
RetentionOrZero(retentionInDays) ==
  IF retentionInDays = NoRetention THEN 0 ELSE retentionInDays

\* Temporal.Instant.from(eventTime).toZonedDateTimeISO('UTC').add({days}).toInstant()
DeletionDate(eventTime, retentionInDays, delay) ==
  ToInstant(AddDays(ToZonedDateTimeISOUTC(InstantFrom(eventTime)), retentionInDays + delay))

\* `at(${deletionDate.toString().replace('Z', '')})`
ScheduleExpression(deletionDate) ==
  [fn |-> "at", arg |-> ReplaceZ(InstantToString(deletionDate))]

NoCommand == [sent |-> FALSE]

\* mutant: the payload names the region the function runs in
CreateScheduleCommandInFunctionRegion(retentionInDays, eventTime, logGroupName, region, delay) ==
  [sent |-> TRUE,
   ScheduleExpression |-> ScheduleExpression(DeletionDate(eventTime, retentionInDays, delay)),
   FlexibleTimeWindow |-> [Mode |-> "FLEXIBLE", MaximumWindowInMinutes |-> 5],
   Target |-> [RoleArn |-> schedulerRoleArn, Arn |-> deletionQueueArn,
               Input |-> [logGroupName |-> logGroupName, awsRegion |-> functionRegion]],
   ActionAfterCompletion |-> "DELETE"]

\* mutant: the payload calls the region 'region'
CreateScheduleCommandRegionField(retentionInDays, eventTime, logGroupName, region, delay) ==
  [sent |-> TRUE,
   ScheduleExpression |-> ScheduleExpression(DeletionDate(eventTime, retentionInDays, delay)),
   FlexibleTimeWindow |-> [Mode |-> "FLEXIBLE", MaximumWindowInMinutes |-> 5],
   Target |-> [RoleArn |-> schedulerRoleArn, Arn |-> deletionQueueArn,
               Input |-> [logGroupName |-> logGroupName, region |-> region]],
   ActionAfterCompletion |-> "DELETE"]

\* the CreateScheduleCommand input
CreateScheduleCommand(retentionInDays, eventTime, logGroupName, region, delay) ==
  [sent |-> TRUE,
   ScheduleExpression |-> ScheduleExpression(DeletionDate(eventTime, retentionInDays, delay)),
   FlexibleTimeWindow |-> [Mode |-> "FLEXIBLE", MaximumWindowInMinutes |-> 5],
   Target |-> [RoleArn |-> schedulerRoleArn, Arn |-> deletionQueueArn,
               Input |-> [logGroupName |-> logGroupName, awsRegion |-> region]],
   ActionAfterCompletion |-> "DELETE"]

\* ------------------------------------------------- event-handler: actions
NoResponse == [ok |-> FALSE, listed |-> FALSE, logGroups |-> <<>>]

EhItem(pc, body, error, response, logGroup, cmd) ==
  [pc |-> pc, body |-> body, error |-> error, response |-> response,
   logGroup |-> logGroup, cmd |-> cmd]

\* a record nothing has read yet; its body is drawn when the parser reads it
EhPending == EhItem("pending", InvalidBody, "", NoResponse, NoLogGroup, NoCommand)

\* mutant: the failure is kept on the record and not registered as failed
EhFailUnregistered(i, error) ==
  /\ ehItems' = [ehItems EXCEPT ![i].pc = "failed", ![i].error = error]
  /\ UNCHANGED ehFailureMessages

\* BatchProcessor.failureHandler(record, error)
EhFail(i, error) ==
  /\ ehItems' = [ehItems EXCEPT ![i].pc = "failed", ![i].error = error]
  /\ ehFailureMessages' = Append(ehFailureMessages, ehRecords[i].messageId)

\* handler(event) entered with the given records: processPartialResponse
\* registers the records and starts processing all of them
EhInvokeRecords(records) ==
  /\ ehPc \in {"idle", "returned", "threw"}
  /\ ehRecords' = records
  /\ ehItems' = [i \in DOMAIN records |-> EhPending]
  /\ ehPc' = "running"
  /\ ehFailureMessages' = <<>>
  /\ ehResult' = <<>>
  /\ ehAttempts' = [i \in DOMAIN records |-> 0]
  /\ UNCHANGED <<deletionDelayDays, cwClientMap, clientSerial>>
  /\ UNCHANGED <<dhVars, dqVars, snVars, lgVars>>

\* the runtime invokes handler(event) with a batch of records
EhInvoke ==
  /\ \E n \in 1..MaxBatch : EhInvokeRecords([i \in 1..n |-> [messageId |-> i]])
  /\ UNCHANGED eqVars

\* processRecord: the parser validates the record's body against the schema
EhParseBody(i, body) ==
  /\ ehPc = "running"
  /\ ehItems[i].pc = "pending"
  /\ IF EventBridgeEventSchema(body)
       THEN /\ ehItems' = [ehItems EXCEPT ![i].pc = "parsed", ![i].body = body]
            /\ UNCHANGED ehFailureMessages
       ELSE /\ ehItems' = [ehItems EXCEPT ![i].pc = "failed", ![i].body = body,
                                          ![i].error = "validation"]
            /\ ehFailureMessages' = Append(ehFailureMessages, ehRecords[i].messageId)
  /\ UNCHANGED <<deletionDelayDays, cwClientMap, clientSerial,
                 ehPc, ehRecords, ehResult, ehAttempts>>
  /\ UNCHANGED <<dhVars, dqVars, snVars, lgVars>>

\* the parser reads the body of a record of the batch
EhParse(i) ==
  /\ \E body \in EhBodies : EhParseBody(i, body)
  /\ UNCHANGED eqVars

\* recordHandler up to its first await: fetchLogGroupInfo takes the regional
\* client and sends DescribeLogGroupsCommand
EhRecordHandler(i) ==
  /\ ehPc = "running"
  /\ ehItems[i].pc = "parsed"
  /\ cwClientMap' = GetRegionalCwClientMap("event-handler", ehItems[i].body.awsRegion)
  /\ clientSerial' = GetRegionalCwClientSerial("event-handler", ehItems[i].body.awsRegion)
  /\ ehItems' = [ehItems EXCEPT ![i].pc = "describe"]
  /\ ehAttempts' = [ehAttempts EXCEPT ![i] = 1]
  /\ UNCHANGED <<deletionDelayDays, ehPc, ehRecords,
                 ehFailureMessages, ehResult>>
  /\ UNCHANGED <<eqVars, dhVars, dqVars, snVars, lgVars>>

\* the describe call settles: fetchLogGroupInfo picks the log group or throws;
\* recordHandler goes on into createDeleteSchedule up to its await
EhDescribeSettled(i) ==
  /\ ehPc = "running"
  /\ ehItems[i].pc = "describe"
  /\ \E response \in DescribeResponses(ehItems[i].body.logGroupName) :
       LET body == ehItems[i].body
           logGroup == FindLogGroup(response, body.logGroupName)
       IN IF ~response.ok
            THEN /\ ehItems' = [ehItems EXCEPT ![i].pc = "failed", ![i].error = "describe",
                                               ![i].response = response]
                 /\ ehFailureMessages' = Append(ehFailureMessages, ehRecords[i].messageId)
                 /\ ehAttempts' = [ehAttempts EXCEPT ![i] = 0]
            ELSE IF ~logGroup.found
              THEN /\ ehItems' = [ehItems EXCEPT ![i].pc = "failed", ![i].error = "notfound",
                                                 ![i].response = response]
                   /\ ehFailureMessages' = Append(ehFailureMessages, ehRecords[i].messageId)
                   /\ ehAttempts' = [ehAttempts EXCEPT ![i] = 0]
              ELSE /\ ehItems' = [ehItems EXCEPT
                        ![i].pc = "schedule",
                        ![i].response = response,
                        ![i].logGroup = logGroup,
                        ![i].cmd = CreateScheduleCommand(
                                     RetentionOrZero(logGroup.retentionInDays),
                                     body.eventTime, body.logGroupName, body.awsRegion,
                                     deletionDelayDays)]
                   /\ ehAttempts' = [ehAttempts EXCEPT ![i] = 1]
                   /\ UNCHANGED ehFailureMessages
  /\ UNCHANGED <<deletionDelayDays, cwClientMap, clientSerial,
                 ehPc, ehRecords, ehResult>>
  /\ UNCHANGED <<eqVars, dhVars, dqVars, snVars, lgVars>>

\* the create-schedule call settles: success ends the record, an error fails it
EhCreateSettled(i, created) ==
  /\ ehPc = "running"
  /\ ehItems[i].pc = "schedule"
  /\ IF created
       THEN /\ ehItems' = [ehItems EXCEPT ![i].pc = "ok"]
            /\ UNCHANGED ehFailureMessages
       ELSE EhFail(i, "schedule")
  /\ ehAttempts' = [ehAttempts EXCEPT ![i] = 0]
  /\ UNCHANGED <<deletionDelayDays, cwClientMap, clientSerial,
                 ehPc, ehRecords, ehResult>>
  /\ UNCHANGED <<dhVars, dqVars, snVars, lgVars>>

EhScheduleSettled(i) ==
  /\ \E created \in BOOLEAN : EhCreateSettled(i, created)
  /\ UNCHANGED eqVars

\* a request of the describe or create-schedule call in flight fails with a
\* retryable error (throttling, a transient fault) and the client sends it
\* again; recordHandler stays at its await
EhSdkRetry(i) ==
  /\ ehPc = "running"
  /\ ehItems[i].pc \in {"describe", "schedule"}
  /\ SdkMayRetry(ehAttempts[i])
  /\ ehAttempts' = [ehAttempts EXCEPT ![i] = @ + 1]
  /\ UNCHANGED <<deletionDelayDays, cwClientMap, clientSerial,
                 ehPc, ehRecords, ehItems, ehFailureMessages, ehResult>>
  /\ UNCHANGED <<eqVars, dhVars, dqVars, snVars, lgVars>>

\* mutant: the option is left at its default
ThrowOnFullBatchFailureDefault == TRUE

\* processPartialResponse(..., { throwOnFullBatchFailure: false })
EhThrowOnFullBatchFailure == FALSE

\* mutant: only the first failure is reported
EhFirstFailureOnly(failureMessages) ==
  [k \in 1..(IF failureMessages = <<>> THEN 0 ELSE 1) |->
     [itemIdentifier |-> failureMessages[k]]]

\* mutant: every record of the batch is reported
EhAllRecordsReported(failureMessages) ==
  [k \in 1..Len(ehRecords) |-> [itemIdentifier |-> ehRecords[k].messageId]]

\* mutant: only the failure recorded last is reported
EhLastFailureOnly(failureMessages) ==
  [k \in 1..(IF failureMessages = <<>> THEN 0 ELSE 1) |->
     [itemIdentifier |-> failureMessages[Len(failureMessages)]]]

\* processor.response(): the identifiers of the failed records
EhBatchItemFailures(failureMessages) ==
  [k \in 1..Len(failureMessages) |-> [itemIdentifier |-> failureMessages[k]]]

\* BasePartialBatchProcessor.entireBatchFailed()
EhEntireBatchFailed == Len(ehFailureMessages) = Len(ehRecords)

\* every record is settled: the processor would throw FullBatchFailureError
\* when all of them failed if throwOnFullBatchFailure were set; the handler
\* returns the partial response
EhRespond ==
  /\ ehPc = "running"
  /\ \A i \in DOMAIN ehItems : ehItems[i].pc \in {"ok", "failed"}
  /\ IF EhThrowOnFullBatchFailure /\ ehFailureMessages # <<>> /\ EhEntireBatchFailed
       THEN /\ ehPc' = "threw"
            /\ UNCHANGED ehResult
       ELSE /\ ehPc' = "returned"
            /\ ehResult' = EhBatchItemFailures(ehFailureMessages)
  /\ UNCHANGED <<deletionDelayDays, cwClientMap, clientSerial,
                 ehRecords, ehItems, ehFailureMessages, ehAttempts>>
  /\ UNCHANGED <<dhVars, dqVars, snVars, lgVars>>

EhReturn ==
  /\ EhRespond
  /\ UNCHANGED eqVars

\* ------------------------------- event-handler fed from its event queue
\* the identifiers of a set of messages, in ascending order
InOrder(ids) ==
  CHOOSE q \in [1..Cardinality(ids) -> ids] :
    \A a, b \in 1..Cardinality(ids) : a < b => q[a] < q[b]

\* bodies of the messages the event queue holds: one the schema refuses and
\* two events of different regions
EqBodies ==
  { InvalidBody,
    EventBody(Iso(2024, 10, 10, 13, 26, 7, 0, 0), "eu-west-1", AppGroup),
    EventBody(Iso(2024, 2, 28, 23, 59, 59, 500, 0), "us-east-1", AppGroup) }

\* the batches the queue may hand to an invocation: visible messages
EqBatches ==
  { batch \in SUBSET { id \in DOMAIN eqState : eqState[id] = "visible" } :
      batch # {} /\ Cardinality(batch) <= MaxBatch }

\* the event source receives a batch and invokes handler(event) with it
EqInvoke ==
  /\ \E batch \in EqBatches :
       /\ EhInvokeRecords([k \in 1..Cardinality(batch) |-> [messageId |-> InOrder(batch)[k]]])
       /\ eqState' = [id \in DOMAIN eqState |->
                        IF id \in batch THEN "inflight" ELSE eqState[id]]
  /\ UNCHANGED <<eqMessages, eqCreated, eqReported>>

\* the parser reads the body the message carries
EqParse(i) ==
  /\ EhParseBody(i, eqMessages[ehRecords[i].messageId])
  /\ UNCHANGED eqVars

\* the create-schedule call of a record settles; the scheduler holds one more
\* schedule for the message when it succeeded
EqScheduleSettled(i) ==
  /\ \E created \in BOOLEAN :
       /\ EhCreateSettled(i, created)
       /\ eqCreated' = IF created
                         THEN [eqCreated EXCEPT ![ehRecords[i].messageId] = @ + 1]
                         ELSE eqCreated
  /\ UNCHANGED <<eqMessages, eqState, eqReported>>

\* the handler ends: the event source deletes the messages the response does
\* not name and makes the others visible again; all of them when it threw
EqReturn ==
  /\ EhRespond
  /\ eqState' = [id \in DOMAIN eqState |->
                   IF eqState[id] # "inflight" THEN eqState[id]
                   ELSE IF ehPc' = "threw" THEN "visible"
                   ELSE IF \E k \in 1..Len(ehResult') : ehResult'[k].itemIdentifier = id
                     THEN "visible"
                     ELSE "deleted"]
  /\ eqReported' = eqReported \cup { id \in DOMAIN eqState :
                                        eqState[id] = "inflight" /\ eqState'[id] = "visible" }
  /\ UNCHANGED <<eqMessages, eqCreated>>

\* ---------------------------------------------- deletion-handler: records
DeletionMessage(name, region) ==
  [valid |-> TRUE, logGroupName |-> name, awsRegion |-> region]

\* bodies of the records delivered to the Deletion Processor: text that is no
\* JSON, an object without awsRegion, an object without logGroupName, and
\* two deletion messages
DhBodies ==
  { InvalidBody,
    [valid |-> TRUE, logGroupName |-> AppGroup],
    [valid |-> TRUE, awsRegion |-> "eu-west-1"],
    DeletionMessage(AppGroup, "eu-west-1"),
    DeletionMessage(AppGroup, "us-east-1") }

\* the log groups the logging service may hold
AllLogGroups == { <<region, AppGroup>> : region \in Regions }

\* mutant: the schema asks for awsRegion only
SchemaWithoutLogGroupName(body) == body.valid /\ "awsRegion" \in DOMAIN body

\* transformer 'json' and DeletionMessageSchema: the body parses as JSON and
\* has the strings logGroupName and awsRegion, or the parser throws
DeletionMessageSchema(body) ==
  /\ body.valid
  /\ "logGroupName" \in DOMAIN body
  /\ "awsRegion" \in DOMAIN body

\* what DeleteLogGroup(name) sent through the client of a region may answer
DeleteOutcomes(region, name) ==
  IF <<region, name>> \in logGroups
    THEN {"deleted", "error"}
    ELSE {"notfound", "error"}

\* mutant: no error is recognised as not-found
NeverResourceNotFound(outcome) == FALSE

\* error instanceof ResourceNotFoundException
IsResourceNotFound(outcome) == outcome = "notfound"

DhItem(pc, body, outcome) == [pc |-> pc, body |-> body, outcome |-> outcome]

\* a record nothing has read yet; its body is drawn when the parser reads it
DhPending == DhItem("pending", InvalidBody, "")

\* ------------------------------------------------ deletion-handler: actions
\* handler(event) entered with the given records: processPartialResponse
\* registers the records and starts processing all of them
DhInvokeRecords(records) ==
  /\ dhPc \in {"idle", "returned", "threw"}
  /\ dhRecords' = records
  /\ dhItems' = [i \in DOMAIN records |-> DhPending]
  /\ dhPc' = "running"
  /\ dhFailureMessages' = <<>>
  /\ dhResult' = <<>>
  /\ dhDeleteCalls' = {}
  /\ dhCommands' = {}
  /\ dhAttempts' = [i \in DOMAIN records |-> 0]
  /\ UNCHANGED <<cwClientMap, clientSerial, logGroups, deleted>>
  /\ UNCHANGED <<ehVars, eqVars, snVars, lgVars>>

\* the runtime invokes handler(event) with a batch of records
DhInvoke ==
  /\ \E n \in 1..MaxBatch : DhInvokeRecords([i \in 1..n |-> [messageId |-> i]])
  /\ UNCHANGED dqVars

\* processRecord: the parser validates the record's body against the schema
DhParseBody(i, body) ==
  /\ dhPc = "running"
  /\ dhItems[i].pc = "pending"
  /\ IF DeletionMessageSchema(body)
       THEN /\ dhItems' = [dhItems EXCEPT ![i].pc = "parsed", ![i].body = body]
            /\ UNCHANGED dhFailureMessages
       ELSE /\ dhItems' = [dhItems EXCEPT ![i].pc = "failed", ![i].body = body,
                                          ![i].outcome = "validation"]
            /\ dhFailureMessages' = Append(dhFailureMessages, dhRecords[i].messageId)
  /\ UNCHANGED <<cwClientMap, clientSerial, logGroups, deleted, dhPc, dhRecords, dhResult,
                 dhDeleteCalls, dhCommands, dhAttempts>>
  /\ UNCHANGED <<ehVars, eqVars, snVars, lgVars>>

\* the parser reads the body of a record of the batch
DhParse(i) ==
  /\ \E body \in DhBodies : DhParseBody(i, body)
  /\ UNCHANGED dqVars

\* recordHandler up to its await: it takes the regional client and sends
\* DeleteLogGroupCommand
DhRecordHandler(i) ==
  /\ dhPc = "running"
  /\ dhItems[i].pc = "parsed"
  /\ cwClientMap' = GetRegionalCwClientMap("deletion-handler", dhItems[i].body.awsRegion)
  /\ clientSerial' = GetRegionalCwClientSerial("deletion-handler", dhItems[i].body.awsRegion)
  /\ dhItems' = [dhItems EXCEPT ![i].pc = "deleting"]
  /\ dhDeleteCalls' = dhDeleteCalls \cup {i}
  /\ dhCommands' = dhCommands \cup
       {[record |-> i, logGroupName |-> dhItems[i].body.logGroupName,
         client |-> GetRegionalCwClient("deletion-handler", dhItems[i].body.awsRegion)]}
  /\ dhAttempts' = [dhAttempts EXCEPT ![i] = 1]
  /\ UNCHANGED <<logGroups, deleted, dhPc, dhRecords, dhFailureMessages, dhResult>>
  /\ UNCHANGED <<ehVars, eqVars, dqVars, snVars, lgVars>>

\* the delete call settles: success and not-found end the record, any other
\* error is rethrown and fails it
DhDeleteSettled(i) ==
  /\ dhPc = "running"
  /\ dhItems[i].pc = "deleting"
  /\ LET group == <<dhItems[i].body.awsRegion, dhItems[i].body.logGroupName>>
     IN \E outcome \in DeleteOutcomes(group[1], group[2]) :
          /\ logGroups' = IF outcome = "deleted" THEN logGroups \ {group} ELSE logGroups
          /\ deleted' = IF outcome = "deleted" THEN deleted \cup {group} ELSE deleted
          /\ IF outcome = "deleted" \/ IsResourceNotFound(outcome)
               THEN /\ dhItems' = [dhItems EXCEPT ![i].pc = "ok", ![i].outcome = outcome]
                    /\ UNCHANGED dhFailureMessages
               ELSE /\ dhItems' = [dhItems EXCEPT ![i].pc = "failed", ![i].outcome = outcome]
                    /\ dhFailureMessages' = Append(dhFailureMessages, dhRecords[i].messageId)
  /\ dhAttempts' = [dhAttempts EXCEPT ![i] = 0]
  /\ UNCHANGED <<cwClientMap, clientSerial, dhPc, dhRecords, dhResult, dhDeleteCalls,
                 dhCommands>>
  /\ UNCHANGED <<ehVars, eqVars, dqVars, snVars, lgVars>>

\* a request of the delete call in flight fails with a retryable error and
\* the client sends it again; recordHandler stays at its await
DhSdkRetry(i) ==
  /\ dhPc = "running"
  /\ dhItems[i].pc = "deleting"
  /\ SdkMayRetry(dhAttempts[i])
  /\ dhAttempts' = [dhAttempts EXCEPT ![i] = @ + 1]
  /\ UNCHANGED <<cwClientMap, clientSerial, logGroups, deleted, dhPc, dhRecords, dhItems,
                 dhFailureMessages, dhResult, dhDeleteCalls, dhCommands>>
  /\ UNCHANGED <<ehVars, eqVars, dqVars, snVars, lgVars>>

\* mutant: every record of the batch is reported
DhAllRecordsReported(failureMessages) ==
  [k \in 1..Len(dhRecords) |-> [itemIdentifier |-> dhRecords[k].messageId]]

\* processor.response(): the identifiers of the failed records
DhBatchItemFailures(failureMessages) ==
  [k \in 1..Len(failureMessages) |-> [itemIdentifier |-> failureMessages[k]]]

\* mutant: a batch is never taken as failed entirely
NeverEntireBatchFailed == FALSE

\* BasePartialBatchProcessor.entireBatchFailed()
DhEntireBatchFailed == Len(dhFailureMessages) = Len(dhRecords)

\* every record is settled: the processor throws FullBatchFailureError when
\* all of them failed (throwOnFullBatchFailure defaults to true), and the
\* handler returns the partial response otherwise
DhRespond ==
  /\ dhPc = "running"
  /\ \A i \in DOMAIN dhItems : dhItems[i].pc \in {"ok", "failed"}
  /\ IF dhFailureMessages # <<>> /\ DhEntireBatchFailed
       THEN /\ dhPc' = "threw"
            /\ UNCHANGED dhResult
       ELSE /\ dhPc' = "returned"
            /\ dhResult' = DhBatchItemFailures(dhFailureMessages)
  /\ UNCHANGED <<cwClientMap, clientSerial, logGroups, deleted,
                 dhRecords, dhItems, dhFailureMessages, dhDeleteCalls, dhCommands,
                 dhAttempts>>
  /\ UNCHANGED <<ehVars, eqVars, snVars, lgVars>>

DhReturn ==
  /\ DhRespond
  /\ UNCHANGED dqVars

\* ------------------- deletion-handler fed from the deletion queue and its DLQ
\* deadLetterQueue: { queue: deletionDLQ, maxReceiveCount: 3 }
maxReceiveCount == 3

\* the batches the queue may hand to an invocation: visible messages
DqBatches ==
  { batch \in SUBSET { id \in DOMAIN dqState : dqState[id] = "visible" } :
      batch # {} /\ Cardinality(batch) <= MaxBatch }

\* the queue's redrive policy: a message is delivered while its receive count
\* does not exceed maxReceiveCount
DqDeliverable(id) == dqReceiveCount[id] + 1 <= maxReceiveCount

\* the event source receives a batch, which counts one more receive for each
\* of its messages, and invokes handler(event) with it
DqInvoke ==
  /\ \E batch \in DqBatches :
       /\ \A id \in batch : DqDeliverable(id)
       /\ DhInvokeRecords([k \in 1..Cardinality(batch) |-> [messageId |-> InOrder(batch)[k]]])
       /\ dqState' = [id \in DOMAIN dqState |->
                        IF id \in batch THEN "inflight" ELSE dqState[id]]
       /\ dqReceiveCount' = [id \in DOMAIN dqReceiveCount |->
                               IF id \in batch THEN dqReceiveCount[id] + 1
                               ELSE dqReceiveCount[id]]
  /\ UNCHANGED dqMessages

\* a receive that would exceed maxReceiveCount moves the message to the
\* dead-letter queue instead of delivering it
DqMoveToDeadLetter(id) ==
  /\ dqState[id] = "visible"
  /\ ~DqDeliverable(id)
  /\ dqState' = [dqState EXCEPT ![id] = "dlq"]
  /\ UNCHANGED <<dqMessages, dqReceiveCount>>
  /\ UNCHANGED <<cwClientMap, clientSerial, dhVars>>
  /\ UNCHANGED <<deletionDelayDays, ehVars, eqVars, snVars, lgVars>>

\* the parser reads the body the message carries
DqParse(i) ==
  /\ DhParseBody(i, dqMessages[dhRecords[i].messageId])
  /\ UNCHANGED dqVars

\* the handler ends: the event source deletes the messages the response does
\* not name and makes the others visible again; all of them when it threw
DqReturn ==
  /\ DhRespond
  /\ dqState' = [id \in DOMAIN dqState |->
                   IF dqState[id] # "inflight" THEN dqState[id]
                   ELSE IF dhPc' = "threw" THEN "visible"
                   ELSE IF \E k \in 1..Len(dhResult') : dhResult'[k].itemIdentifier = id
                     THEN "visible"
                     ELSE "deleted"]
  /\ UNCHANGED <<dqMessages, dqReceiveCount>>

\* ------------------------------------------- slack-workflow-notifier: events
\* an alarm ARN as its chunks, ':' being a chunk of its own
AlarmArn(region, name) ==
  <<"arn", ":", "aws", ":", "cloudwatch", ":", region, ":", "123456789012", ":",
    "alarm", ":">> \o name

MalformedArn == <<"arn", ":", "aws", ":", "cloudwatch">>

InvalidEvent == [valid |-> FALSE]

AlarmEvent(value, arn, name, region, timestamp) ==
  [valid |-> TRUE, source |-> "aws.cloudwatch", alarmArn |-> arn, region |-> region,
   alarmData |-> [alarmName |-> name,
                  state |-> [value |-> value, timestamp |-> timestamp],
                  configuration |-> [description |-> "Test alarm description"]]]

\* a timestamp string that is no date
InvalidTime == [text |-> "not a timestamp"]
IsIso(t) == "y" \in DOMAIN t

\* 2025-01-02T12:34:56.000Z, 2024-12-31T23:59:59.789-05:00, and no date
AlarmTimes ==
  { Iso(2025, 1, 2, 12, 34, 56, 0, 0),
    Iso(2024, 12, 31, 23, 59, 59, 789, -300),
    InvalidTime }

StateValues == {"ALARM", "OK", "INSUFFICIENT_DATA"}

\* the alarms the events are about: ARN, name, region
Alarms ==
  { <<AlarmArn("us-east-1", <<"TestAlarm">>), <<"TestAlarm">>, "us-east-1">>,
    <<AlarmArn("eu-west-1", <<"Disk", " ", "Full">>), <<"Disk", " ", "Full">>, "eu-west-1">>,
    <<AlarmArn("us-east-1", <<"queue", ":", "backlog">>), <<"queue", ":", "backlog">>,
      "us-east-1">>,
    <<MalformedArn, <<"TestAlarm">>, "us-east-1">> }

\* the events the Alert Notifier is invoked with
AlarmEvents ==
  {InvalidEvent}
  \cup { AlarmEvent(value, alarm[1], alarm[2], alarm[3], t) :
           value \in StateValues, alarm \in Alarms, t \in AlarmTimes }

\* CloudWatchAlarmEventSchema.parse(event) accepts the event or throws
CloudWatchAlarmEventSchema(event) == event.valid

\* what getParameter may answer: the URL, an empty value, undefined, a rejection
ParameterResponses ==
  { [ok |-> TRUE, defined |-> TRUE, value |-> "https://hooks.slack.com/test-webhook"],
    [ok |-> TRUE, defined |-> TRUE, value |-> ""],
    [ok |-> TRUE, defined |-> FALSE, value |-> ""],
    [ok |-> FALSE, defined |-> FALSE, value |-> ""] }

\* no answer yet
NoParameter == [ok |-> FALSE, defined |-> FALSE, value |-> "(pending)"]

\* mutant: only an undefined value counts as missing
WebhookUrlUndefined(param) == ~param.defined

\* !webhookUrl: the value is undefined or the empty string
WebhookUrlMissing(param) == (~param.defined) \/ param.value = ""

\* process.env.APP_NAME
appName == "TestApp"

\* how a POST may end: a 2xx response, another response, a transport error
PostOutcomes == {"ok", "http", "network"}

\* ------------------------------------- slack-workflow-notifier: the payload
ColonPositions(str) == { k \in 1..Len(str) : str[k] = ":" }

\* the position of the n-th ':' (0 before the first part, Len + 1 after the last)
NthColon(str, n) ==
  IF n = 0 THEN 0
  ELSE IF n > Cardinality(ColonPositions(str)) THEN Len(str) + 1
  ELSE CHOOSE p \in ColonPositions(str) :
         Cardinality({ q \in ColonPositions(str) : q <= p }) = n

\* str.split(':').length
SplitLength(str) == Cardinality(ColonPositions(str)) + 1

\* str.split(':')[index], index counted from 0
SplitPart(str, index) == SubSeq(str, NthColon(str, index) + 1, NthColon(str, index + 1) - 1)

EncodeChunk(c) ==
  CASE c = ":" -> "%3A"
    [] c = "/" -> "%2F"
    [] c = " " -> "%20"
    [] OTHER -> c

\* encodeURIComponent(str)
EncodeURIComponent(str) == [k \in 1..Len(str) |-> EncodeChunk(str[k])]

\* mutant: only an ARN of fewer than three parts is refused
InvalidArnFormatShort(alarmArn) == SplitLength(alarmArn) < 3

\* buildCloudWatchUrl throws for this ARN
InvalidArnFormat(alarmArn) == SplitLength(alarmArn) < 7

BuildCloudWatchUrl(alarmArn) ==
  LET region == SplitPart(alarmArn, 3)
      alarmName == SplitPart(alarmArn, 6)
  IN <<"https://">> \o region
       \o <<".console.aws.amazon.com/cloudwatch/home?region=">> \o region
       \o <<"#alarmsV2:alarm/">> \o EncodeURIComponent(alarmName)

\* new Date(isoTimestamp).toISOString(): UTC fields with three fraction digits and 'Z'
ToISOString(t) ==
  LET z == ToZonedDateTimeISOUTC(InstantFrom(t))
  IN [y |-> z.y, mo |-> z.mo, d |-> z.d, sep |-> "T", h |-> z.h, mi |-> z.mi, s |-> z.s,
      frac |-> <<z.ms>>, suffix |-> "Z"]

\* .replace('T', ' ').replace(/\.\d+Z$/, ' UTC')
FormatTimestamp(t) ==
  [ToISOString(t) EXCEPT !.sep = " ", !.frac = <<>>, !.suffix = " UTC"]

\* the payload object; "rotating-light" stands for the emoji character
BuildPayload(event) ==
  [emoji |-> "rotating-light",
   alarmName |-> event.alarmData.alarmName,
   alarmDescription |-> event.alarmData.configuration.description,
   cloudWatchUrl |-> BuildCloudWatchUrl(event.alarmArn),
   region |-> event.region,
   alarmTime |-> FormatTimestamp(event.alarmData.state.timestamp),
   appName |-> appName]

NoPayload == [built |-> FALSE]

\* ------------------------------------ slack-workflow-notifier: sendWithRetry
maxRetries == 3

RECURSIVE Pow(_, _)
Pow(b, e) == IF e = 0 THEN 1 ELSE b * Pow(b, e - 1)

\* mutant: the wait grows by one second per attempt
LinearBackoffMs(attempt) == (attempt + 1) * 1000

\* Math.pow(2, attempt) * 1000
BackoffMs(attempt) == Pow(2, attempt) * 1000

\* the for loop's condition attempt <= maxRetries
LoopContinues(attempt) == attempt <= maxRetries

\* mutant: the test is off by one, attempt === maxRetries - 1
RetriesExhaustedEarly(attempt) == attempt = maxRetries - 1

\* the catch block's test attempt === maxRetries
RetriesExhausted(attempt) == attempt = maxRetries

\* mutant: only OK is skipped
IsSkippedWhenOk(event) == event.alarmData.state.value = "OK"

\* parsedEvent.alarmData.state.value !== 'ALARM'
IsSkipped(event) == event.alarmData.state.value # "ALARM"

Post(url, payload) == [url |-> url, method |-> "POST", body |-> payload]

\* --------------------------------------- slack-workflow-notifier: actions
SnStart(pc, event, error, secretCalls) ==
  /\ snPc' = pc
  /\ snEvent' = event
  /\ snError' = error
  /\ snErrorDetail' = <<>>
  /\ snParameter' = NoParameter
  /\ snSecretCalls' = secretCalls
  /\ snPayload' = NoPayload
  /\ snAttempt' = 0
  /\ snPosts' = <<>>
  /\ snOutcomes' = <<>>
  /\ snWaits' = <<>>
  /\ snLog' = <<>>

\* the runtime invokes handler(event): the event is validated, a state other
\* than ALARM ends the invocation, ALARM asks the parameter store for the URL
SnInvoke ==
  /\ snPc \in {"idle", "returned", "threw"}
  /\ \E event \in AlarmEvents :
       IF ~CloudWatchAlarmEventSchema(event)
         THEN SnStart("threw", event, "validation", 0)
         ELSE IF IsSkipped(event)
           THEN SnStart("returned", event, "", 0)
           ELSE SnStart("getParameter", event, "", 1)
  /\ UNCHANGED <<deletionDelayDays, cwClientMap, clientSerial, ehVars, eqVars, dhVars, dqVars, lgVars>>

\* getParameter settles: without a URL the handler throws; with one it builds
\* the payload and sendWithRetry makes its first POST
SnParameterSettled ==
  /\ snPc = "getParameter"
  /\ \E param \in ParameterResponses :
       /\ snParameter' = param
       /\ IF ~param.ok
            THEN /\ snPc' = "threw" /\ snError' = "parameter"
                 /\ UNCHANGED <<snErrorDetail, snPayload, snPosts>>
            ELSE IF WebhookUrlMissing(param)
              THEN /\ snPc' = "threw" /\ snError' = "Webhook URL not available"
                   /\ UNCHANGED <<snErrorDetail, snPayload, snPosts>>
              ELSE IF InvalidArnFormat(snEvent.alarmArn)
                THEN /\ snPc' = "threw" /\ snError' = "Invalid alarm ARN format"
                     /\ snErrorDetail' = snEvent.alarmArn
                     /\ UNCHANGED <<snPayload, snPosts>>
                ELSE IF ~IsIso(snEvent.alarmData.state.timestamp)
                  THEN /\ snPc' = "threw" /\ snError' = "Invalid time value"
                       /\ UNCHANGED <<snErrorDetail, snPayload, snPosts>>
                  ELSE /\ snPc' = "post" /\ snError' = ""
                       /\ snPayload' = BuildPayload(snEvent)
                       /\ snPosts' = <<Post(param.value, BuildPayload(snEvent))>>
                       /\ UNCHANGED snErrorDetail
  /\ UNCHANGED <<snEvent, snSecretCalls, snAttempt, snOutcomes, snWaits, snLog>>
  /\ UNCHANGED <<deletionDelayDays, cwClientMap, clientSerial, ehVars, eqVars, dhVars, dqVars, lgVars>>

\* the POST settles: success returns; a failure on the last attempt is logged
\* and rethrown, an earlier failure starts the backoff wait
SnPostSettled ==
  /\ snPc = "post"
  /\ \E outcome \in PostOutcomes :
       /\ snOutcomes' = Append(snOutcomes, outcome)
       /\ IF outcome = "ok"
            THEN /\ snPc' = "returned"
                 /\ snLog' = Append(snLog, [message |-> "Successfully sent to Slack",
                                            n |-> snAttempt])
                 /\ UNCHANGED <<snError, snWaits>>
            ELSE IF RetriesExhausted(snAttempt)
              THEN /\ snPc' = "threw"
                   /\ snError' = outcome
                   /\ snLog' = Append(snLog, [message |-> "Failed after retries",
                                              n |-> maxRetries])
                   /\ UNCHANGED snWaits
              ELSE /\ snPc' = "backoff"
                   /\ snLog' = Append(snLog, [message |-> "Retrying", n |-> snAttempt + 1])
                   /\ snWaits' = Append(snWaits, BackoffMs(snAttempt))
                   /\ UNCHANGED snError
  /\ UNCHANGED <<snEvent, snErrorDetail, snParameter, snSecretCalls, snPayload,
                 snAttempt, snPosts>>
  /\ UNCHANGED <<deletionDelayDays, cwClientMap, clientSerial, ehVars, eqVars, dhVars, dqVars, lgVars>>

\* the backoff timer fires: the loop goes to its next attempt and POSTs again,
\* or ends when its condition fails
SnBackoffElapsed ==
  /\ snPc = "backoff"
  /\ snAttempt' = snAttempt + 1
  /\ IF LoopContinues(snAttempt + 1)
       THEN /\ snPc' = "post"
            /\ snPosts' = Append(snPosts, Post(snPosts[1].url, snPayload))
       ELSE /\ snPc' = "returned"
            /\ UNCHANGED snPosts
  /\ UNCHANGED <<snEvent, snError, snErrorDetail, snParameter, snSecretCalls, snPayload,
                 snOutcomes, snWaits, snLog>>
  /\ UNCHANGED <<deletionDelayDays, cwClientMap, clientSerial, ehVars, eqVars, dhVars, dqVars, lgVars>>

\* --------------------------------- cw-logs-event-handler: the legacy handler
Undefined == [defined |-> FALSE]
Defined(value) == [defined |-> TRUE, value |-> value]

\* the #context field initialiser: the process region and the two ARNs
InitialContext ==
  [awsRegion |-> functionRegion, eventTime |-> Undefined, logGroupName |-> Undefined,
   deletionQueueArn |-> deletionQueueArn, schedulerRoleArn |-> schedulerRoleArn]

\* #registerEventContext(event): region, event time and name of the event
RegisterEventContext(context, event) ==
  [context EXCEPT !.awsRegion = event.awsRegion,
                  !.eventTime = Defined(event.eventTime),
                  !.logGroupName = Defined(event.logGroupName)]

\* #getRegionalCwClient(): the map with a client for the context's region
LegacyRegionalCwClientMap(clientMap, context) ==
  IF clientMap[context.awsRegion] = 0
    THEN [clientMap EXCEPT ![context.awsRegion] =
            Cardinality({ r \in Regions : clientMap[r] # 0 }) + 1]
    ELSE clientMap

\* mutant: an absent first entry is replaced by an empty log group
FirstLogGroupOrEmpty(response) ==
  IF (~response.listed) \/ response.logGroups = <<>>
    THEN [found |-> TRUE, logGroupName |-> <<>>, retentionInDays |-> NoRetention]
    ELSE FoundLogGroup(response.logGroups[1])

\* response.logGroups?.[0]
FirstLogGroup(response) ==
  IF (~response.listed) \/ response.logGroups = <<>>
    THEN NoLogGroup
    ELSE FoundLogGroup(response.logGroups[1])

\* mutant: the schedule set retentionInDays days after the event time
LegacyCreateScheduleCommandSameDay(retentionInDays, context) ==
  [sent |-> TRUE,
   ScheduleExpression |->
     ScheduleExpression(DeletionDate(context.eventTime.value, retentionInDays, 0)),
   FlexibleTimeWindow |-> [Mode |-> "FLEXIBLE", MaximumWindowInMinutes |-> 5],
   Target |-> [RoleArn |-> context.schedulerRoleArn, Arn |-> context.deletionQueueArn,
               Input |-> [logGroupName |-> context.logGroupName.value,
                          awsRegion |-> context.awsRegion]],
   ActionAfterCompletion |-> "DELETE"]

\* #createDeleteSchedule(retentionInDays): the CreateScheduleCommand input,
\* the schedule set retentionInDays + 1 days after the event time
LegacyCreateScheduleCommand(retentionInDays, context) ==
  [sent |-> TRUE,
   ScheduleExpression |->
     ScheduleExpression(DeletionDate(context.eventTime.value, retentionInDays, 1)),
   FlexibleTimeWindow |-> [Mode |-> "FLEXIBLE", MaximumWindowInMinutes |-> 5],
   Target |-> [RoleArn |-> context.schedulerRoleArn, Arn |-> context.deletionQueueArn,
               Input |-> [logGroupName |-> context.logGroupName.value,
                          awsRegion |-> context.awsRegion]],
   ActionAfterCompletion |-> "DELETE"]

\* mutant: a rejecting handler leaves the event's context in place
LgThrowKeepsContext(error) ==
  /\ lgPc' = "threw"
  /\ lgError' = error
  /\ UNCHANGED lgContext

\* the handler rejects: contextCleaner's finally puts the cloned context back
LgThrow(error) ==
  /\ lgPc' = "threw"
  /\ lgError' = error
  /\ lgContext' = lgOriginalContext

\* the runtime invokes handler(event): contextCleaner clones the context, the
\* parser validates the event, the handler registers the event context, and
\* #fetchLogGroupInfo takes the regional client and sends DescribeLogGroupsCommand
LgInvoke ==
  /\ lgPc \in {"idle", "returned", "threw"}
  /\ \E event \in EhBodies :
       /\ lgEvent' = event
       /\ lgOriginalContext' = lgContext
       /\ lgResponse' = NoResponse
       /\ lgCmd' = NoCommand
       /\ IF ~EventBridgeEventSchema(event)
            THEN /\ lgPc' = "threw"
                 /\ lgError' = "validation"
                 /\ UNCHANGED <<lgContext, lgClientMap>>
            ELSE /\ lgPc' = "describe"
                 /\ lgError' = ""
                 /\ lgContext' = RegisterEventContext(lgContext, event)
                 /\ lgClientMap' = LegacyRegionalCwClientMap(
                                     lgClientMap, RegisterEventContext(lgContext, event))
  /\ UNCHANGED <<deletionDelayDays, cwClientMap, clientSerial>>
  /\ UNCHANGED <<ehVars, eqVars, dhVars, dqVars, snVars>>

\* the describe call settles: #fetchLogGroupInfo takes the first log group
\* listed or throws; the handler goes on into #createDeleteSchedule up to its await
LgDescribeSettled ==
  /\ lgPc = "describe"
  /\ \E response \in DescribeResponses(lgContext.logGroupName.value) :
       /\ lgResponse' = response
       /\ IF ~response.ok
            THEN LgThrow("describe") /\ UNCHANGED lgCmd
            ELSE IF ~FirstLogGroup(response).found
              THEN LgThrow("Log group not found or does not exist") /\ UNCHANGED lgCmd
              ELSE /\ lgPc' = "schedule"
                   /\ lgCmd' = LegacyCreateScheduleCommand(
                                 RetentionOrZero(FirstLogGroup(response).retentionInDays),
                                 lgContext)
                   /\ UNCHANGED <<lgError, lgContext>>
  /\ UNCHANGED <<lgEvent, lgOriginalContext, lgClientMap>>
  /\ UNCHANGED <<deletionDelayDays, cwClientMap, clientSerial>>
  /\ UNCHANGED <<ehVars, eqVars, dhVars, dqVars, snVars>>

\* the create-schedule call settles: the handler returns true or rejects, and
\* contextCleaner's finally puts the cloned context back
LgScheduleSettled ==
  /\ lgPc = "schedule"
  /\ \E created \in BOOLEAN :
       IF created
         THEN /\ lgPc' = "returned"
              /\ lgContext' = lgOriginalContext
              /\ UNCHANGED lgError
         ELSE LgThrow("schedule")
  /\ UNCHANGED <<lgEvent, lgOriginalContext, lgClientMap, lgResponse, lgCmd>>
  /\ UNCHANGED <<deletionDelayDays, cwClientMap, clientSerial>>
  /\ UNCHANGED <<ehVars, eqVars, dhVars, dqVars, snVars>>

\* ------------------------------------------------------- specifications
\* every process idle, nothing cached
Idle ==
  /\ cwClientMap = [p \in Processes |-> [r \in Regions |-> 0]]
  /\ clientSerial = [p \in Processes |-> 0]
  /\ ehPc = "idle"
  /\ ehRecords = <<>>
  /\ ehItems = <<>>
  /\ ehFailureMessages = <<>>
  /\ ehResult = <<>>
  /\ ehAttempts = <<>>
  /\ deleted = {}
  /\ dhPc = "idle"
  /\ dhRecords = <<>>
  /\ dhItems = <<>>
  /\ dhFailureMessages = <<>>
  /\ dhResult = <<>>
  /\ dhDeleteCalls = {}
  /\ dhCommands = {}
  /\ dhAttempts = <<>>
  /\ snPc = "idle"
  /\ snEvent = InvalidEvent
  /\ snError = ""
  /\ snErrorDetail = <<>>
  /\ snParameter = NoParameter
  /\ snSecretCalls = 0
  /\ snPayload = NoPayload
  /\ snAttempt = 0
  /\ snPosts = <<>>
  /\ snOutcomes = <<>>
  /\ snWaits = <<>>
  /\ snLog = <<>>
  /\ lgPc = "idle"
  /\ lgEvent = InvalidBody
  /\ lgContext = InitialContext
  /\ lgOriginalContext = InitialContext
  /\ lgClientMap = [r \in Regions |-> 0]
  /\ lgResponse = NoResponse
  /\ lgCmd = NoCommand
  /\ lgError = ""

\* the records come from outside the model: no queue is modelled
NoEventQueue ==
  /\ eqMessages = <<>>
  /\ eqState = <<>>
  /\ eqCreated = <<>>
  /\ eqReported = {}

NoDeletionQueue ==
  /\ dqMessages = <<>>
  /\ dqState = <<>>
  /\ dqReceiveCount = <<>>

Init ==
  /\ Idle
  /\ NoEventQueue
  /\ NoDeletionQueue
  /\ deletionDelayDays \in DelayDays
  /\ logGroups \in SUBSET AllLogGroups

\* the Event Intake Processor alone, under each configured delay
InitIntake ==
  /\ Idle
  /\ NoEventQueue
  /\ NoDeletionQueue
  /\ deletionDelayDays \in DelayDays
  /\ logGroups = AllLogGroups

\* the Deletion Processor alone, over each population of log groups
InitDeletion ==
  /\ Idle
  /\ NoEventQueue
  /\ NoDeletionQueue
  /\ deletionDelayDays = 1
  /\ logGroups \in SUBSET AllLogGroups

\* the Alert Notifier alone
InitNotifier ==
  /\ Idle
  /\ NoEventQueue
  /\ NoDeletionQueue
  /\ deletionDelayDays = 1
  /\ logGroups = AllLogGroups

NextIntake ==
  \/ EhInvoke
  \/ \E i \in DOMAIN ehItems : EhParse(i)
  \/ \E i \in DOMAIN ehItems : EhRecordHandler(i)
  \/ \E i \in DOMAIN ehItems : EhDescribeSettled(i)
  \/ \E i \in DOMAIN ehItems : EhScheduleSettled(i)
  \/ EhReturn

SpecIntake == InitIntake /\ [][NextIntake]_vars

NextDeletion ==
  \/ DhInvoke
  \/ \E i \in DOMAIN dhItems : DhParse(i)
  \/ \E i \in DOMAIN dhItems : DhRecordHandler(i)
  \/ \E i \in DOMAIN dhItems : DhDeleteSettled(i)
  \/ DhReturn

SpecDeletion == InitDeletion /\ [][NextDeletion]_vars

NextNotifier ==
  \/ SnInvoke
  \/ SnParameterSettled
  \/ SnPostSettled
  \/ SnBackoffElapsed

SpecNotifier == InitNotifier /\ [][NextNotifier]_vars

\* the Event Intake Processor fed from its event queue: the messages are
\* there from the start, none yet received
InitRedelivery ==
  /\ Idle
  /\ NoDeletionQueue
  /\ deletionDelayDays = 1
  /\ logGroups = AllLogGroups
  /\ eqMessages \in [1..MaxMessages -> EqBodies]
  /\ eqState = [id \in 1..MaxMessages |-> "visible"]
  /\ eqCreated = [id \in 1..MaxMessages |-> 0]
  /\ eqReported = {}

NextRedelivery ==
  \/ EqInvoke
  \/ \E i \in DOMAIN ehItems : EqParse(i)
  \/ \E i \in DOMAIN ehItems : EhRecordHandler(i)
  \/ \E i \in DOMAIN ehItems : EhDescribeSettled(i)
  \/ \E i \in DOMAIN ehItems : EqScheduleSettled(i)
  \/ EqReturn

SpecRedelivery == InitRedelivery /\ [][NextRedelivery]_vars

\* the Deletion Processor fed from the deletion queue with its dead-letter
\* queue: the messages are there from the start, none yet received
InitDeadLetter ==
  /\ Idle
  /\ NoEventQueue
  /\ deletionDelayDays = 1
  /\ logGroups \in SUBSET AllLogGroups
  /\ dqMessages \in [1..MaxMessages -> DhBodies]
  /\ dqState = [id \in 1..MaxMessages |-> "visible"]
  /\ dqReceiveCount = [id \in 1..MaxMessages |-> 0]

NextDeadLetter ==
  \/ DqInvoke
  \/ \E id \in DOMAIN dqState : DqMoveToDeadLetter(id)
  \/ \E i \in DOMAIN dhItems : DqParse(i)
  \/ \E i \in DOMAIN dhItems : DhRecordHandler(i)
  \/ \E i \in DOMAIN dhItems : DhDeleteSettled(i)
  \/ DqReturn

SpecDeadLetter == InitDeadLetter /\ [][NextDeadLetter]_vars

\* the message a schedule puts on the deletion queue when it fires: its body
\* is the Input of the schedule's target, the JSON text of the payload object
ScheduledMessage(cmd) == [valid |-> TRUE] @@ cmd.Target.Input

\* the messages of the schedules createDeleteSchedule registers for the
\* events the intake accepts
ScheduledBodies ==
  { ScheduledMessage(CreateScheduleCommand(RetentionOrZero(retention), body.eventTime,
                                           body.logGroupName, body.awsRegion, delay)) :
      body \in { b \in EhBodies : EventBridgeEventSchema(b) },
      retention \in Retentions, delay \in DelayDays }

\* the Deletion Processor fed with the messages of the registered schedules
InitHandOff ==
  /\ Idle
  /\ NoEventQueue
  /\ deletionDelayDays = 1
  /\ logGroups \in SUBSET AllLogGroups
  /\ dqMessages \in [1..MaxMessages -> ScheduledBodies]
  /\ dqState = [id \in 1..MaxMessages |-> "visible"]
  /\ dqReceiveCount = [id \in 1..MaxMessages |-> 0]

SpecHandOff == InitHandOff /\ [][NextDeadLetter]_vars

\* the legacy single-event handler alone
InitLegacy ==
  /\ Idle
  /\ NoEventQueue
  /\ NoDeletionQueue
  /\ deletionDelayDays = 1
  /\ logGroups = AllLogGroups

NextLegacy ==
  \/ LgInvoke
  \/ LgDescribeSettled
  \/ LgScheduleSettled

SpecLegacy == InitLegacy /\ [][NextLegacy]_vars

\* the three functions, each a process of its own, with the requests the SDK
\* clients repeat: a behaviour follows one function from its first invocation
\* on; the intake reads one event body or a body that is no JSON
InitProcessors ==
  /\ Idle
  /\ NoEventQueue
  /\ NoDeletionQueue
  /\ deletionDelayDays = 1
  /\ logGroups = AllLogGroups

PrBodies == { InvalidBody, EventBody(Iso(2024, 10, 10, 13, 26, 7, 0, 0), "eu-west-1", AppGroup) }

PrParse(i) ==
  /\ \E body \in PrBodies : EhParseBody(i, body)
  /\ UNCHANGED eqVars

\* an invocation of a function whose process the behaviour follows
PrIntakeInvoke == dhPc = "idle" /\ snPc = "idle" /\ EhInvoke
PrDeletionInvoke == ehPc = "idle" /\ snPc = "idle" /\ DhInvoke
PrNotifierInvoke == ehPc = "idle" /\ dhPc = "idle" /\ SnInvoke

NextProcessors ==
  \/ PrIntakeInvoke
  \/ \E i \in DOMAIN ehItems : PrParse(i)
  \/ \E i \in DOMAIN ehItems : EhRecordHandler(i)
  \/ \E i \in DOMAIN ehItems : EhSdkRetry(i)
  \/ \E i \in DOMAIN ehItems : EhDescribeSettled(i)
  \/ \E i \in DOMAIN ehItems : EhScheduleSettled(i)
  \/ EhReturn
  \/ PrDeletionInvoke
  \/ \E i \in DOMAIN dhItems : DhParse(i)
  \/ \E i \in DOMAIN dhItems : DhRecordHandler(i)
  \/ \E i \in DOMAIN dhItems : DhSdkRetry(i)
  \/ \E i \in DOMAIN dhItems : DhDeleteSettled(i)
  \/ DhReturn
  \/ PrNotifierInvoke
  \/ SnParameterSettled
  \/ SnPostSettled
  \/ SnBackoffElapsed

SpecProcessors == InitProcessors /\ [][NextProcessors]_vars

Next ==
  \/ NextIntake
  \/ NextDeletion
  \/ NextNotifier
  \/ NextLegacy
  \/ \E i \in DOMAIN ehItems : EhSdkRetry(i)
  \/ \E i \in DOMAIN dhItems : DhSdkRetry(i)

Spec == Init /\ [][Next]_vars

\* ============================================================== properties
\* ------------------------------------------------- Event Intake Processor
\* the records of the running or finished intake invocation
EhIndices == DOMAIN ehItems

\* the retention createDeleteSchedule was called with for a resolved entry
EntryRetention(entry) ==
  IF entry.retentionInDays = NoRetention THEN 0 ELSE entry.retentionInDays

\* an instant a whole number of days later, on the time line
InstantPlusDays(instant, days) ==
  [instant EXCEPT !.epochSeconds = @ + days * 86400]

\* the instant a schedule expression denotes, read as UTC
ExpressionInstant(expression) ==
  [epochSeconds |-> DaysFromCivil(expression.arg.y, expression.arg.mo, expression.arg.d) * 86400
                     + expression.arg.h * 3600 + expression.arg.mi * 60 + expression.arg.s,
   ms |-> expression.arg.frac]

\* 'at(X)': X the UTC date and time of the instant, whole seconds, no zone suffix
AtWholeSecondsNoZone(instant) ==
  LET date == CivilFromDays(instant.epochSeconds \div 86400)
      sod == instant.epochSeconds % 86400
  IN [fn |-> "at",
      arg |-> [y |-> date.y, mo |-> date.mo, d |-> date.d,
               h |-> sod \div 3600, mi |-> (sod % 3600) \div 60, s |-> sod % 60,
               frac |-> 0, zone |-> ""]]

\* the entries of a describe response whose name is the requested name
ExactEntries(response, name) ==
  { response.logGroups[k] : k \in { j \in 1..Len(response.logGroups) :
                                      response.logGroups[j].logGroupName = name } }

\* the identifiers a returned partial response names
Identifiers(result) == { result[k].itemIdentifier : k \in 1..Len(result) }
InFailureMessages(messages, id) == \E k \in 1..Len(messages) : messages[k] = id

\* C1: for every event time T, retention R and delay D, the registered
\* expression is 'at(X)', X being T in UTC plus (R + D) days, cut to whole
\* seconds and written without a zone suffix.
C1_ExpressionWholeSecondsUtc ==
  \A i \in EhIndices :
    ehItems[i].cmd.sent =>
      ehItems[i].cmd.ScheduleExpression =
        AtWholeSecondsNoZone(
          InstantPlusDays(InstantFrom(ehItems[i].body.eventTime),
                          EntryRetention(ehItems[i].logGroup) + deletionDelayDays))

\* the expression names the right second and has no zone suffix; the
\* sub-second part of T is carried into it
ExpressionKeepsFraction ==
  \A i \in EhIndices :
    ehItems[i].cmd.sent =>
      LET expected == AtWholeSecondsNoZone(
                        InstantPlusDays(InstantFrom(ehItems[i].body.eventTime),
                                        EntryRetention(ehItems[i].logGroup) + deletionDelayDays))
      IN ehItems[i].cmd.ScheduleExpression =
           [expected EXCEPT !.arg.frac = ehItems[i].body.eventTime.ms]

\* C2: when the resolved log group carries no retentionInDays, the schedule
\* fires at eventTime + deletionDelayDays days, and the record fails only if
\* the create-schedule call itself is rejected.
C2_AbsentRetentionIsZero ==
  \A i \in EhIndices :
    (ehItems[i].logGroup.found /\ ehItems[i].logGroup.retentionInDays = NoRetention) =>
      /\ ehItems[i].cmd.sent
      /\ ExpressionInstant(ehItems[i].cmd.ScheduleExpression) =
           InstantPlusDays(InstantFrom(ehItems[i].body.eventTime), deletionDelayDays)
      /\ ehItems[i].pc \in {"schedule", "ok", "failed"}
      /\ (ehItems[i].pc = "failed" => ehItems[i].error = "schedule")
      /\ (ehItems[i].pc # "failed" =>
            /\ ~InFailureMessages(ehFailureMessages, ehRecords[i].messageId)
            /\ ehRecords[i].messageId \notin Identifiers(ehResult))

C2_Witness ==
  \E i \in EhIndices :
    /\ ehPc = "returned"
    /\ ehItems[i].logGroup.found
    /\ ehItems[i].logGroup.retentionInDays = NoRetention
    /\ ehItems[i].pc = "ok"
    /\ deletionDelayDays = 1
    /\ ehItems[i].body.eventTime.ms # 0

\* C3: whenever the describe response contains an entry whose name equals
\* the requested name, wherever it stands and whatever else is listed, the
\* resolver returns that entry and the schedule is computed from its retention.
C3_ExactEntryResolved ==
  \A i \in EhIndices :
    \A entry \in ExactEntries(ehItems[i].response, ehItems[i].body.logGroupName) :
      ehItems[i].response.listed =>
        /\ ehItems[i].logGroup = FoundLogGroup(entry)
        /\ ehItems[i].cmd.sent
        /\ ExpressionInstant(ehItems[i].cmd.ScheduleExpression) =
             InstantPlusDays(InstantFrom(ehItems[i].body.eventTime),
                             EntryRetention(entry) + deletionDelayDays)

C3_Witness ==
  \E i \in EhIndices :
    /\ Len(ehItems[i].response.logGroups) = 2
    /\ ehItems[i].response.logGroups[2].logGroupName = ehItems[i].body.logGroupName
    /\ ehItems[i].response.logGroups[1].logGroupName # ehItems[i].body.logGroupName
    /\ ehItems[i].response.logGroups[1].retentionInDays
         # ehItems[i].response.logGroups[2].retentionInDays
    /\ ehItems[i].cmd.sent
    /\ ehItems[i].pc = "ok"

\* C4: when the describe response has no entry whose name equals the
\* requested name (no list, an empty list, only longer names), resolution
\* fails with the not-found error, the record's identifier is reported as
\* failed, and no schedule is created for the record.
C4_NoExactEntryFails ==
  \A i \in EhIndices :
    (/\ ehItems[i].response.ok
     /\ ExactEntries(ehItems[i].response, ehItems[i].body.logGroupName) = {}) =>
      /\ ehItems[i].pc = "failed"
      /\ ehItems[i].error = "notfound"
      /\ ~ehItems[i].logGroup.found
      /\ ~ehItems[i].cmd.sent
      /\ InFailureMessages(ehFailureMessages, ehRecords[i].messageId)
      /\ (ehPc = "returned" => ehRecords[i].messageId \in Identifiers(ehResult))

C4_Witness ==
  \E i \in EhIndices :
    /\ ehPc = "returned"
    /\ ehItems[i].response.ok
    /\ ehItems[i].response.listed
    /\ Len(ehItems[i].response.logGroups) = 1
    /\ ehItems[i].response.logGroups[1].logGroupName # ehItems[i].body.logGroupName
    /\ ehItems[i].pc = "failed"
    /\ ehRecords[i].messageId \in Identifiers(ehResult)

\* ------------------------------------------------------ Deletion Processor
DhIndices == DOMAIN dhItems

\* the log group a deletion message names
DhGroup(i) == <<dhItems[i].body.awsRegion, dhItems[i].body.logGroupName>>

\* the service answered the record's delete call by the log group's existence
DhAnswered(i) == dhItems[i].outcome \in {"deleted", "notfound"}

\* the record's processing ended in an error: validation, or a delete error
\* other than not-found
DhErrored(i) == dhItems[i].outcome \in {"validation", "error"}

\* C5: deletion is idempotent. A delete call that fails because the log group
\* does not exist leaves the record unreported and raises nothing; so every
\* delivery answered after the log group was deleted ends in success with
\* the log group still absent.
C5_DeleteIdempotent ==
  /\ deleted \cap logGroups = {}
  /\ \A i \in DhIndices :
       DhAnswered(i) =>
         /\ dhItems[i].pc = "ok"
         /\ DhGroup(i) \notin logGroups
         /\ ~InFailureMessages(dhFailureMessages, dhRecords[i].messageId)
         /\ dhRecords[i].messageId \notin Identifiers(dhResult)
  /\ (/\ dhPc \in {"returned", "threw"}
      /\ \A i \in DhIndices : DhAnswered(i)) =>
        (dhPc = "returned" /\ dhResult = <<>>)

C5_Witness ==
  /\ dhPc = "returned"
  /\ Len(dhRecords) = 1
  /\ dhItems[1].outcome = "notfound"
  /\ DhGroup(1) \in deleted
  /\ dhResult = <<>>

\* C10: for every batch in which at least one record succeeds, the returned
\* batchItemFailures holds exactly the identifiers of the records that ended
\* in an error other than not-found or failed validation, each once, and no
\* identifier of a record that succeeded.
C10_PartialFailuresExact ==
  (/\ dhPc \in {"returned", "threw"}
   /\ \E i \in DhIndices : DhAnswered(i)) =>
     /\ dhPc = "returned"
     /\ Identifiers(dhResult) = { dhRecords[i].messageId : i \in { j \in DhIndices : DhErrored(j) } }
     /\ Len(dhResult) = Cardinality({ j \in DhIndices : DhErrored(j) })
     /\ \A i \in DhIndices : DhAnswered(i) => dhRecords[i].messageId \notin Identifiers(dhResult)

C10_Witness ==
  /\ dhPc = "returned"
  /\ Len(dhRecords) = 2
  /\ dhItems[1].outcome = "deleted"
  /\ dhItems[2].outcome = "error"
  /\ dhResult = <<[itemIdentifier |-> dhRecords[2].messageId]>>

\* ---------------------------------------------------------- Alert Notifier
\* the POST that settled as the k-th failed
PostFailed(k) == snOutcomes[k] # "ok"

\* the first k settled POSTs all failed
FirstFailed(k) == Len(snOutcomes) >= k /\ \A j \in 1..k : PostFailed(j)

SuccessLogs == { k \in 1..Len(snLog) : snLog[k].message = "Successfully sent to Slack" }

\* C6: for every valid alarm event whose state is OK or INSUFFICIENT_DATA the
\* invocation ends normally with no call to the secret store and no POST.
C6_NonAlarmSkipped ==
  (/\ snPc # "idle"
   /\ snEvent.valid
   /\ snEvent.alarmData.state.value \in {"OK", "INSUFFICIENT_DATA"}) =>
     /\ snPc = "returned"
     /\ snError = ""
     /\ snSecretCalls = 0
     /\ snPosts = <<>>

C6_Witness ==
  /\ snPc = "returned"
  /\ snEvent.valid
  /\ snEvent.alarmData.state.value = "INSUFFICIENT_DATA"

\* the region an alarm ARN names: its fourth ':'-separated field
ArnRegion(arn) == SplitPart(arn, 3)

\* the alarm an alarm ARN names: everything after 'alarm:'
ArnAlarmName(arn) == SubSeq(arn, NthColon(arn, 6) + 1, Len(arn))

\* the console link to an alarm of a region
ConsoleLink(region, name) ==
  <<"https://">> \o region \o <<".console.aws.amazon.com/cloudwatch/home?region=">>
    \o region \o <<"#alarmsV2:alarm/">> \o EncodeURIComponent(name)

\* 'YYYY-MM-DD HH:MM:SS UTC' of a timestamp
UtcSecondsText(t) ==
  LET seconds == InstantFrom(t).epochSeconds
      date == CivilFromDays(seconds \div 86400)
      sod == seconds % 86400
  IN [y |-> date.y, mo |-> date.mo, d |-> date.d, sep |-> " ",
      h |-> sod \div 3600, mi |-> (sod % 3600) \div 60, s |-> sod % 60,
      frac |-> <<>>, suffix |-> " UTC"]

\* the seven-field body an ALARM event calls for
ExpectedBody(event, link) ==
  [emoji |-> "rotating-light",
   alarmName |-> event.alarmData.alarmName,
   alarmDescription |-> event.alarmData.configuration.description,
   cloudWatchUrl |-> link,
   region |-> event.region,
   alarmTime |-> UtcSecondsText(event.alarmData.state.timestamp),
   appName |-> "TestApp"]

\* C7: for every ALARM event with a well-formed alarm ARN, every POST body
\* is exactly the seven-field object built from the event, its link being
\* the console link for the ARN's region and alarm name, and the body is
\* the same on every retry.
C7_PostBodyExact ==
  \A k \in 1..Len(snPosts) :
    snPosts[k].body =
      ExpectedBody(snEvent, ConsoleLink(ArnRegion(snEvent.alarmArn),
                                        ArnAlarmName(snEvent.alarmArn)))

\* every POST body is the seven-field object, its link naming the seventh
\* ':'-separated field of the ARN
PostBodyWithSeventhField ==
  \A k \in 1..Len(snPosts) :
    /\ DOMAIN snPosts[k].body = {"emoji", "alarmName", "alarmDescription", "cloudWatchUrl",
                                 "region", "alarmTime", "appName"}
    /\ snPosts[k].body =
         ExpectedBody(snEvent, ConsoleLink(ArnRegion(snEvent.alarmArn),
                                           SplitPart(snEvent.alarmArn, 6)))

C9_FourWaits ==
  /\ \A i \in 0..3 :
       FirstFailed(i + 1) => (Len(snWaits) >= i + 1 /\ snWaits[i + 1] = Pow(2, i) * 1000)
  /\ (snPc = "threw" /\ FirstFailed(4)) => snWaits = <<1000, 2000, 4000, 8000>>

\* C9, amended: the wait after failed attempt i, i in 0..2, is 2^i seconds,
\* and there is no wait after the failed attempt 3; an invocation in which
\* every attempt fails waits 1s, 2s and 4s, one wait before each of the
\* attempts 2 to 4.
C9_ThreeWaits ==
  /\ \A i \in 0..2 :
       FirstFailed(i + 1) =>
         /\ Len(snWaits) >= i + 1
         /\ snWaits[i + 1] = <<1000, 2000, 4000>>[i + 1]
         /\ Len(snPosts) >= i + 2 => Len(snWaits) >= i + 1
  /\ Len(snWaits) <= 3
  /\ snPc = "backoff" => Len(snPosts) = Len(snWaits)
  /\ (snPc \in {"post", "returned", "threw"} /\ snPosts # <<>>) =>
       Len(snPosts) = Len(snWaits) + 1
  /\ (snPc = "threw" /\ FirstFailed(4)) => snWaits = <<1000, 2000, 4000>>

C9_Witness ==
  /\ snPc = "threw"
  /\ FirstFailed(4)
  /\ snWaits = <<1000, 2000, 4000>>
  /\ Len(snPosts) = 4

\* ------------------------------------------- Deletion Processor: full batches
\* C11: when every record of a non-empty batch fails, the invocation raises
\* the full-batch-failure error; it returns no list of failed identifiers.
C11_FullBatchFailureRaised ==
  (/\ dhPc \in {"returned", "threw"}
   /\ dhRecords # <<>>
   /\ \A i \in DhIndices : DhErrored(i)) =>
     /\ dhPc = "threw"
     /\ dhResult = <<>>

C11_Witness ==
  /\ dhPc = "threw"
  /\ Len(dhRecords) = 2
  /\ dhItems[1].outcome = "error"
  /\ dhItems[2].outcome = "validation"

\* a body that is JSON and has both logGroupName and awsRegion
WellFormedDeletionMessage(body) ==
  body.valid /\ {"logGroupName", "awsRegion"} \subseteq DOMAIN body

\* C16: a record whose body is no JSON, or lacks logGroupName or awsRegion,
\* is a failed item, no delete call is issued for it, and a batch made only
\* of such records raises the full-batch-failure error.
C16_InvalidMessageFails ==
  /\ \A i \in DhIndices :
       (dhItems[i].pc # "pending" /\ ~WellFormedDeletionMessage(dhItems[i].body)) =>
         /\ dhItems[i].pc = "failed"
         /\ dhItems[i].outcome = "validation"
         /\ i \notin dhDeleteCalls
         /\ InFailureMessages(dhFailureMessages, dhRecords[i].messageId)
         /\ (dhPc = "returned" => dhRecords[i].messageId \in Identifiers(dhResult))
  /\ (/\ dhPc \in {"returned", "threw"}
      /\ dhRecords # <<>>
      /\ \A i \in DhIndices : ~WellFormedDeletionMessage(dhItems[i].body)) =>
        (dhPc = "threw" /\ dhDeleteCalls = {})

C16_Witness ==
  /\ dhPc = "threw"
  /\ Len(dhRecords) = 2
  /\ ~dhItems[1].body.valid
  /\ dhItems[2].body.valid
  /\ "awsRegion" \notin DOMAIN dhItems[2].body
  /\ dhDeleteCalls = {}

\* ----------------------------------------- Event Intake Processor: batches
EhFailedIndices == { i \in EhIndices : ehItems[i].pc = "failed" }

\* C12: when every record of a batch fails, the invocation returns normally
\* with a batchItemFailures list naming every record's identifier; it never
\* raises the full-batch-failure error.
C12_FullBatchFailureReturned ==
  /\ ehPc # "threw"
  /\ (/\ ehPc = "returned"
      /\ EhFailedIndices = EhIndices) =>
        /\ Len(ehResult) = Len(ehRecords)
        /\ Identifiers(ehResult) = { ehRecords[i].messageId : i \in EhIndices }

C12_Witness ==
  /\ ehPc = "returned"
  /\ Len(ehRecords) = 2
  /\ ehItems[1].pc = "failed" /\ ehItems[1].error = "validation"
  /\ ehItems[2].pc = "failed" /\ ehItems[2].error = "notfound"
  /\ Len(ehResult) = 2

\* a body that is JSON and holds the three fields the handler reads
WellFormedEvent(body) ==
  body.valid /\ {"eventTime", "awsRegion", "logGroupName"} \subseteq DOMAIN body

\* how a record ends, from its own body and the answers to its own calls
EhOwnOutcome(i) ==
  IF ~WellFormedEvent(ehItems[i].body)
    THEN ehItems[i].pc = "failed" /\ ehItems[i].error = "validation" /\ ~ehItems[i].cmd.sent
  ELSE IF ~ehItems[i].response.ok
    THEN ehItems[i].pc = "failed" /\ ehItems[i].error = "describe" /\ ~ehItems[i].cmd.sent
  ELSE IF ExactEntries(ehItems[i].response, ehItems[i].body.logGroupName) = {}
    THEN ehItems[i].pc = "failed" /\ ehItems[i].error = "notfound" /\ ~ehItems[i].cmd.sent
  ELSE /\ ehItems[i].cmd.sent
       /\ ehItems[i].pc \in {"ok", "failed"}
       /\ (ehItems[i].pc = "failed" => ehItems[i].error = "schedule")

\* C13: in every batch each record is attempted and ends as its own body and
\* service answers decide, whatever happens to the other records, and the
\* returned batchItemFailures is exactly the set of the identifiers of the
\* records that failed.
C13_RecordsIsolated ==
  ehPc = "returned" =>
    /\ \A i \in EhIndices : EhOwnOutcome(i)
    /\ Identifiers(ehResult) = { ehRecords[i].messageId : i \in EhFailedIndices }
    /\ Len(ehResult) = Cardinality(EhFailedIndices)

C13_Witness ==
  /\ ehPc = "returned"
  /\ Len(ehRecords) = 2
  /\ ehItems[1].pc = "failed" /\ ehItems[1].error = "validation"
  /\ ehItems[2].pc = "ok" /\ ehItems[2].cmd.sent
  /\ ehResult = <<[itemIdentifier |-> ehRecords[1].messageId]>>

\* C15: every schedule registered is a one-shot 'at(...)' schedule targeting
\* the configured deletion queue with the configured role, with a flexible
\* window of 5 minutes, deleting itself after completion, and its payload is
\* exactly the log group name and the region of the event.
C15_ScheduleShape ==
  \A i \in EhIndices :
    ehItems[i].cmd.sent =>
      /\ ehItems[i].cmd.ScheduleExpression.fn = "at"
      /\ ehItems[i].cmd.FlexibleTimeWindow = [Mode |-> "FLEXIBLE", MaximumWindowInMinutes |-> 5]
      /\ ehItems[i].cmd.Target.Arn = "arn:aws:sqs:eu-west-1:123456789023:deletion-queue"
      /\ ehItems[i].cmd.Target.RoleArn = "arn:aws:iam::123456789023:role/publish-to-queue-role"
      /\ ehItems[i].cmd.ActionAfterCompletion = "DELETE"
      /\ ehItems[i].cmd.Target.Input =
           [logGroupName |-> ehItems[i].body.logGroupName,
            awsRegion |-> ehItems[i].body.awsRegion]

C15_Witness ==
  \E i \in EhIndices :
    /\ ehItems[i].pc = "ok"
    /\ ehItems[i].cmd.sent
    /\ ehItems[i].body.awsRegion = "us-east-1"
    /\ ehItems[i].cmd.Target.Input.awsRegion # functionRegion

\* --------------------------------- Event Intake Processor: redelivery
EqIds == DOMAIN eqState

\* C14: when a record is redelivered only after it was reported as failed,
\* each valid event has at most one create-schedule call that succeeded, and
\* exactly one once it was processed successfully; a record reported as
\* failed has created no schedule.
C14_OneSchedulePerEvent ==
  /\ \A id \in EqIds :
       /\ eqCreated[id] <= 1
       /\ (eqState[id] = "deleted" => (eqMessages[id].valid /\ eqCreated[id] = 1))
       /\ (eqState[id] = "visible" => eqCreated[id] = 0)
  /\ ehPc = "returned" =>
       \A id \in Identifiers(ehResult) : eqCreated[id] = 0

C14_Witness ==
  \E id \in EqIds :
    /\ id \in eqReported
    /\ eqState[id] = "deleted"
    /\ eqCreated[id] = 1

\* ------------------------------------- Deletion queue and dead-letter queue
DqIds == DOMAIN dqState

\* C19: a message whose processing fails on every delivery is retried 3
\* times after its failed first delivery, then sits in the dead-letter queue
\* and is not delivered again; a message that succeeded is not in the
\* dead-letter queue.
C19_ThreeRetriesThenDeadLetter ==
  \A id \in DqIds :
    /\ dqReceiveCount[id] <= 1 + 3
    /\ (dqState[id] = "dlq" => dqReceiveCount[id] = 1 + 3)
    /\ (dqState[id] = "dlq" =>
          \A i \in DhIndices : dhRecords[i].messageId = id => dhPc # "running")

\* the message is delivered maxReceiveCount times, the first delivery
\* included, and moved to the dead-letter queue at the receive after
DeadLetterAfterMaxReceives ==
  \A id \in DqIds :
    /\ dqReceiveCount[id] <= maxReceiveCount
    /\ (dqState[id] = "dlq" => dqReceiveCount[id] = maxReceiveCount)
    /\ (dqState[id] = "deleted" => WellFormedDeletionMessage(dqMessages[id]))
    /\ (dqState[id] = "dlq" =>
          \A i \in DhIndices : dhRecords[i].messageId = id => dhPc # "running")

\* a record that succeeded is deleted from the queue when its invocation
\* ends, and a deleted message stays deleted
SucceededLeavesQueue ==
  [][/\ \A i \in DhIndices :
          (dhPc = "running" /\ dhPc' # "running" /\ dhItems[i].pc = "ok")
            => dqState'[dhRecords[i].messageId] = "deleted"
     /\ \A id \in DqIds : dqState[id] = "deleted" => dqState'[id] = "deleted"
     /\ \A id \in DqIds : dqState'[id] = "dlq" =>
          (dqState[id] = "dlq" \/ dqState[id] = "visible")]_vars

\* ------------------------------------------- Alert Notifier: preconditions
\* C17: for an ALARM event, when the parameter store answers without a
\* webhook URL (undefined or empty), the invocation fails with the error
\* 'Webhook URL not available', with no POST and no retry.
C17_NoWebhookUrlFailsFast ==
  (/\ snEvent.valid
   /\ snEvent.alarmData.state.value = "ALARM"
   /\ snParameter.ok
   /\ ((~snParameter.defined) \/ snParameter.value = "")) =>
     /\ snPc = "threw"
     /\ snError = "Webhook URL not available"
     /\ snPosts = <<>>
     /\ snOutcomes = <<>>
     /\ snWaits = <<>>
     /\ snAttempt = 0

C17_Witness ==
  /\ snPc = "threw"
  /\ snEvent.valid
  /\ snParameter.ok
  /\ snParameter.defined
  /\ snParameter.value = ""
  /\ snPosts = <<>>

\* an alarm ARN with fewer than the seven ':'-separated parts
TooFewArnParts(arn) == Cardinality(ColonPositions(arn)) < 6

\* C18: for an ALARM event whose alarm ARN has too few ':'-separated parts,
\* the invocation fails without a POST and without a retry, and the error
\* buildCloudWatchUrl raises names the ARN.
C18_MalformedArnFailsFast ==
  (/\ snEvent.valid
   /\ snEvent.alarmData.state.value = "ALARM"
   /\ TooFewArnParts(snEvent.alarmArn)) =>
     /\ snPc \in {"getParameter", "threw"}
     /\ snPosts = <<>>
     /\ snOutcomes = <<>>
     /\ snWaits = <<>>
     /\ snAttempt = 0
     /\ (/\ snPc = "threw"
         /\ snParameter.ok /\ snParameter.defined /\ snParameter.value # "") =>
           /\ snError = "Invalid alarm ARN format"
           /\ snErrorDetail = snEvent.alarmArn

C18_Witness ==
  /\ snPc = "threw"
  /\ snEvent.valid
  /\ snEvent.alarmArn = <<"arn", ":", "aws", ":", "cloudwatch">>
  /\ snError = "Invalid alarm ARN format"
  /\ snErrorDetail = <<"arn", ":", "aws", ":", "cloudwatch">>

\* ---------------------------------------------------------- Legacy handler
\* C20: when the describe response contains no log group, the invocation
\* rejects with 'Log group not found or does not exist' and sends no
\* CreateScheduleCommand.
C20_LegacyNoLogGroupRejects ==
  (/\ lgResponse.ok
   /\ ((~lgResponse.listed) \/ lgResponse.logGroups = <<>>)) =>
     /\ lgPc = "threw"
     /\ lgError = "Log group not found or does not exist"
     /\ ~lgCmd.sent

C20_Witness ==
  /\ lgPc = "threw"
  /\ lgResponse.ok
  /\ lgResponse.listed
  /\ lgResponse.logGroups = <<>>
  /\ lgError = "Log group not found or does not exist"

\* ------------------------------------------------ legacy handler: the schedule
\* C21: every schedule the legacy handler sends fires at the event time, taken
\* in UTC, plus exactly R + 1 days, R being the retention of the log group the
\* handler fetched (0 when it has none), and its payload names the log group
\* and the region of the event
C21_LegacyRetentionPlusOneDay ==
  lgCmd.sent =>
    /\ ExpressionInstant(lgCmd.ScheduleExpression) =
         InstantPlusDays(InstantFrom(lgEvent.eventTime),
                         EntryRetention(lgResponse.logGroups[1]) + 1)
    /\ lgCmd.Target.Input =
         [logGroupName |-> lgEvent.logGroupName, awsRegion |-> lgEvent.awsRegion]

\* a schedule sent for a log group without retention, in another region
C21_Witness ==
  /\ lgPc = "schedule"
  /\ lgCmd.sent
  /\ lgResponse.logGroups[1].retentionInDays = NoRetention
  /\ lgEvent.awsRegion # functionRegion
  /\ ExpressionInstant(lgCmd.ScheduleExpression) =
       InstantPlusDays(InstantFrom(lgEvent.eventTime), 1)

\* C28: between invocations, after a return as after a throw, the context is
\* the one of construction (the process region, no event time, no log group
\* name, the configured ARNs); during an invocation the context, and the
\* command built from it, carry the region, time and name of its own event
C28_ContextRestored ==
  /\ lgPc \in {"idle", "returned", "threw"} =>
       /\ lgContext.awsRegion = functionRegion
       /\ ~lgContext.eventTime.defined
       /\ ~lgContext.logGroupName.defined
       /\ lgContext.deletionQueueArn = deletionQueueArn
       /\ lgContext.schedulerRoleArn = schedulerRoleArn
  /\ lgPc \in {"describe", "schedule"} =>
       /\ lgOriginalContext.awsRegion = functionRegion
       /\ ~lgOriginalContext.eventTime.defined
       /\ ~lgOriginalContext.logGroupName.defined
       /\ lgContext.awsRegion = lgEvent.awsRegion
       /\ lgContext.eventTime = [defined |-> TRUE, value |-> lgEvent.eventTime]
       /\ lgContext.logGroupName = [defined |-> TRUE, value |-> lgEvent.logGroupName]
       /\ lgContext.deletionQueueArn = deletionQueueArn
       /\ lgContext.schedulerRoleArn = schedulerRoleArn
  /\ lgCmd.sent =>
       /\ lgCmd.Target.Input.logGroupName = lgEvent.logGroupName
       /\ lgCmd.Target.Input.awsRegion = lgEvent.awsRegion
       /\ lgCmd.Target.Arn = deletionQueueArn
       /\ lgCmd.Target.RoleArn = schedulerRoleArn

\* an invocation for another region threw after registering its event, and
\* the context is back to the process region
C28_Witness ==
  /\ lgPc = "threw"
  /\ lgError \in {"describe", "schedule", "Log group not found or does not exist"}
  /\ lgEvent.awsRegion # functionRegion
  /\ lgContext.awsRegion = functionRegion
  /\ ~lgContext.eventTime.defined

\* ------------------------------------------------ Alert Notifier: the last failure
FailureLogs == { k \in 1..Len(snLog) : snLog[k].message = "Failed after retries" }

\* C26: when all attempts fail, the failure record logged before the error
\* is raised carries the number of POSTs made, 4, and the error raised is the
\* error of the last attempt
C26_FailureLogCountsAttempts ==
  FirstFailed(4) =>
    /\ snPc = "threw"
    /\ Cardinality(FailureLogs) = 1
    /\ \A k \in FailureLogs : k = Len(snLog) /\ snLog[k].n = Len(snPosts)
    /\ snError = snOutcomes[Len(snOutcomes)]

\* when all attempts fail, one failure record is logged, last, carrying
\* maxRetries, and the error raised is the error of the last attempt
FailureLogCarriesMaxRetries ==
  FirstFailed(4) =>
    /\ snPc = "threw"
    /\ Len(snPosts) = 4
    /\ Cardinality(FailureLogs) = 1
    /\ \A k \in FailureLogs : k = Len(snLog) /\ snLog[k].n = maxRetries
    /\ snError = snOutcomes[4]

\* ------------------------------------------------ Alert Notifier: the console link
\* C30: the link of every POST names the region of the alarm ARN, in host and
\* query, and as its alarm segment the URL-encoded name of the alarm, which
\* is everything after 'alarm:', also when the name itself contains ':'
C30_LinkNamesFullAlarm ==
  \A k \in 1..Len(snPosts) :
    snPosts[k].body.cloudWatchUrl =
      ConsoleLink(ArnRegion(snEvent.alarmArn), ArnAlarmName(snEvent.alarmArn))

\* the link of every POST names the region of the alarm ARN and the
\* URL-encoded seventh ':'-separated field of the ARN
LinkNamesSeventhField ==
  \A k \in 1..Len(snPosts) :
    snPosts[k].body.cloudWatchUrl =
      ConsoleLink(SplitPart(snEvent.alarmArn, 3), SplitPart(snEvent.alarmArn, 6))

\* ------------------------------------- Event Intake Processor: failed records
\* the failure handler registered the record exactly once
RegisteredOnce(messages, id) ==
  Cardinality({ k \in 1..Len(messages) : messages[k] = id }) = 1

\* C22: a record whose log group was resolved and whose create-schedule call
\* failed ends failed with the scheduler's error, its identifier is registered
\* as failed and named in the returned batchItemFailures, and every other
\* record of the batch ends as its own body and answers decide
C22_ScheduleFailureReported ==
  \A i \in EhIndices :
    (ehItems[i].pc = "failed" /\ ehItems[i].error = "schedule") =>
      /\ ehItems[i].logGroup.found
      /\ ehItems[i].logGroup.logGroupName = ehItems[i].body.logGroupName
      /\ ehItems[i].cmd.sent
      /\ RegisteredOnce(ehFailureMessages, ehRecords[i].messageId)
      /\ ehPc = "returned" =>
           /\ ehRecords[i].messageId \in Identifiers(ehResult)
           /\ \A j \in EhIndices \ {i} :
                /\ EhOwnOutcome(j)
                /\ ehItems[j].pc = "ok" =>
                     ehRecords[j].messageId \notin Identifiers(ehResult)

\* the first record's schedule was refused, the second record succeeded
C22_Witness ==
  /\ ehPc = "returned"
  /\ Len(ehRecords) = 2
  /\ ehItems[1].pc = "failed" /\ ehItems[1].error = "schedule"
  /\ ehItems[1].logGroup.found
  /\ ehItems[2].pc = "ok"
  /\ ehResult = <<[itemIdentifier |-> ehRecords[1].messageId]>>

\* C23: a record whose body is no JSON or lacks the event time, the region
\* or the log group name ends failed at validation with no describe answer,
\* no log group and no create-schedule command, and the returned
\* batchItemFailures names it together with the records that failed at the
\* describe call or at the create-schedule call
C23_InvalidRecordReported ==
  /\ \A i \in EhIndices :
       (ehItems[i].pc # "pending" /\ ~WellFormedEvent(ehItems[i].body)) =>
         /\ ehItems[i].pc = "failed"
         /\ ehItems[i].error = "validation"
         /\ ehItems[i].response = NoResponse
         /\ ehItems[i].logGroup = NoLogGroup
         /\ ~ehItems[i].cmd.sent
         /\ RegisteredOnce(ehFailureMessages, ehRecords[i].messageId)
  /\ ehPc = "returned" =>
       \A i \in EhIndices :
         ehItems[i].pc = "failed" =>
           /\ ehItems[i].error \in {"validation", "describe", "notfound", "schedule"}
           /\ ehRecords[i].messageId \in Identifiers(ehResult)

\* a body without log group name and a refused schedule, in one response
C23_Witness ==
  /\ ehPc = "returned"
  /\ Len(ehRecords) = 2
  /\ ehItems[1].body.valid
  /\ "logGroupName" \notin DOMAIN ehItems[1].body
  /\ ehItems[1].pc = "failed" /\ ehItems[1].error = "validation"
  /\ ehItems[2].pc = "failed" /\ ehItems[2].error = "schedule"
  /\ Identifiers(ehResult) = {ehRecords[1].messageId, ehRecords[2].messageId}

\* ------------------------------------------- both processors: repeated requests
\* C24, as claimed: no call of a record is ever sent a second time, so a call
\* in flight has had one request made for it, in the Event Intake Processor
\* and in the Deletion Processor
C24_OneRequestPerCall ==
  /\ \A i \in DOMAIN ehAttempts : ehAttempts[i] <= 1
  /\ \A i \in DOMAIN dhAttempts : dhAttempts[i] <= 1

\* C24, amended: the handlers send each command once per record, one call in
\* flight at a time, and the client repeats a failing request in-process up
\* to 5 requests per command; a record is registered as failed only when its
\* call is no longer in flight; the Alert Notifier makes at most 4 POSTs
C24_RequestsWithinMaxAttempts ==
  /\ \A i \in DOMAIN ehItems :
       /\ ehAttempts[i] <= 5
       /\ ehAttempts[i] >= 1 <=> ehItems[i].pc \in {"describe", "schedule"}
       /\ InFailureMessages(ehFailureMessages, ehRecords[i].messageId) =>
            (ehItems[i].pc = "failed" /\ ehAttempts[i] = 0)
  /\ \A i \in DOMAIN dhItems :
       /\ dhAttempts[i] <= 5
       /\ dhAttempts[i] >= 1 <=> dhItems[i].pc = "deleting"
       /\ Cardinality({ c \in dhCommands : c.record = i }) <= 1
       /\ InFailureMessages(dhFailureMessages, dhRecords[i].messageId) =>
            (dhItems[i].pc = "failed" /\ dhAttempts[i] = 0)
  /\ Len(snPosts) <= 4

\* the fifth request of a record's create-schedule call is in flight while
\* the other record of the batch has already failed
C24_Witness ==
  /\ ehPc = "running"
  /\ Len(ehRecords) = 2
  /\ ehItems[1].pc = "schedule"
  /\ ehAttempts[1] = 5
  /\ ehItems[2].pc = "failed"
  /\ ehFailureMessages = <<ehRecords[2].messageId>>

\* ------------------------------------------- both processors: processing order
\* a record of the intake fails by its own body and the answers to its own calls
EhFailsByItself(i) ==
  \/ ~WellFormedEvent(ehItems[i].body)
  \/ ~ehItems[i].response.ok
  \/ ExactEntries(ehItems[i].response, ehItems[i].body.logGroupName) = {}
  \/ ehItems[i].error = "schedule"

\* a record of the deletion fails by its own body and the answer to its own call
DhFailsByItself(i) ==
  \/ ~WellFormedDeletionMessage(dhItems[i].body)
  \/ dhItems[i].outcome \notin {"deleted", "notfound"}

\* C27: in both processors a settled record has failed exactly when its own
\* body and the answers to its own calls make it fail, whatever the other
\* records have done by then and in whatever order the failures were
\* registered, and the returned batchItemFailures names exactly the records
\* that fail by themselves
C27_OutcomeByRecordAlone ==
  /\ \A i \in DOMAIN ehItems :
       ehItems[i].pc \in {"ok", "failed"} =>
         /\ ehItems[i].pc = "failed" <=> EhFailsByItself(i)
         /\ ehItems[i].pc = "failed" <=>
              InFailureMessages(ehFailureMessages, ehRecords[i].messageId)
  /\ ehPc = "returned" =>
       Identifiers(ehResult) =
         { ehRecords[i].messageId : i \in { j \in DOMAIN ehItems : EhFailsByItself(j) } }
  /\ \A i \in DOMAIN dhItems :
       dhItems[i].pc \in {"ok", "failed"} =>
         /\ dhItems[i].pc = "failed" <=> DhFailsByItself(i)
         /\ dhItems[i].pc = "failed" <=>
              InFailureMessages(dhFailureMessages, dhRecords[i].messageId)
  /\ dhPc = "returned" =>
       Identifiers(dhResult) =
         { dhRecords[i].messageId : i \in { j \in DOMAIN dhItems : DhFailsByItself(j) } }
  /\ dhPc = "threw" => \A i \in DOMAIN dhItems : DhFailsByItself(i)

\* the second record failed before the first one did, and the response
\* names both
C27_Witness ==
  /\ ehPc = "returned"
  /\ Len(ehRecords) = 2
  /\ ehFailureMessages = <<ehRecords[2].messageId, ehRecords[1].messageId>>
  /\ ehItems[1].error = "schedule"
  /\ Identifiers(ehResult) = {ehRecords[1].messageId, ehRecords[2].messageId}

\* ------------------------------------------------------ the per-region cache
\* the regions a process holds a client for
CachedRegions(p) == { r \in Regions : cwClientMap[p][r] # 0 }

\* C25: in every step an entry of the cache keeps its client, at most one
\* entry is added, and afterwards the cache holds one client, different from
\* all others, for each region it has an entry for and as many clients as
\* were ever constructed; every delete command of the invocation went through
\* the client cached for the region of its record, so two commands for one
\* region went through the same client
C25_CacheAppendOnly ==
  [][\A p \in Processes :
       /\ \A r \in Regions :
            cwClientMap[p][r] # 0 => cwClientMap'[p][r] = cwClientMap[p][r]
       /\ Cardinality({ r \in Regions : cwClientMap'[p][r] # cwClientMap[p][r] }) <= 1
       /\ clientSerial'[p] = Cardinality({ r \in Regions : cwClientMap'[p][r] # 0 })
       /\ \A r1, r2 \in Regions :
            (cwClientMap'[p][r1] # 0 /\ cwClientMap'[p][r1] = cwClientMap'[p][r2]) => r1 = r2
       /\ p = "deletion-handler" =>
            \A c \in dhCommands' :
              /\ c.client # 0
              /\ c.client = cwClientMap'[p][dhItems'[c.record].body.awsRegion]
     ]_vars

\* both regions have a client from earlier calls, and the two records of the
\* batch, naming one region, sent their commands through the same client
C25_Witness ==
  /\ dhPc = "running"
  /\ Len(dhRecords) = 2
  /\ dhItems[1].pc = "deleting" /\ dhItems[2].pc = "deleting"
  /\ dhItems[1].body.awsRegion = dhItems[2].body.awsRegion
  /\ CachedRegions("deletion-handler") = Regions
  /\ clientSerial["deletion-handler"] = 2
  /\ Cardinality(dhCommands) = 2
  /\ \A c \in dhCommands :
       c.client = cwClientMap["deletion-handler"][dhItems[1].body.awsRegion]

\* ------------------------------------------------ from scheduler to deleter
\* the message a record of the deletion invocation carries
DhMessage(i) == dqMessages[dhRecords[i].messageId]

\* the messages the queue has delivered at least once
Delivered == { id \in DOMAIN dqMessages : dqReceiveCount[id] > 0 }

\* C29: every message of a registered schedule passes the Deletion
\* Processor's validation; for every record read, one delete command is sent,
\* naming the log group of its message, through the client cached for the
\* region of its message; the log groups deleted are log groups that
\* delivered messages name
C29_HandOff ==
  /\ \A id \in DOMAIN dqMessages :
       /\ DeletionMessageSchema(dqMessages[id])
       /\ DOMAIN dqMessages[id] = {"valid", "logGroupName", "awsRegion"}
  /\ \A i \in DOMAIN dhItems :
       dhItems[i].pc # "pending" =>
         /\ dhItems[i].outcome # "validation"
         /\ dhItems[i].pc \in {"deleting", "ok", "failed"} =>
              /\ Cardinality({ c \in dhCommands : c.record = i }) = 1
              /\ \A c \in dhCommands :
                   c.record = i =>
                     /\ c.logGroupName = DhMessage(i).logGroupName
                     /\ c.client # 0
                     /\ c.client = cwClientMap["deletion-handler"][DhMessage(i).awsRegion]
  /\ \A c \in dhCommands : c.record \in DOMAIN dhItems
  /\ deleted \subseteq
       { <<dqMessages[id].awsRegion, dqMessages[id].logGroupName>> : id \in Delivered }

\* the log group of another region that a delivered message names is
\* deleted through the client of that region
C29_Witness ==
  /\ \E i \in DOMAIN dhItems :
       /\ dhItems[i].pc = "ok"
       /\ dhItems[i].outcome = "deleted"
       /\ DhMessage(i).awsRegion = "us-east-1"
       /\ \E c \in dhCommands :
            /\ c.record = i
            /\ c.client = cwClientMap["deletion-handler"]["us-east-1"]
  /\ <<"us-east-1", AppGroup>> \in deleted

====
